---- MODULE Spec2Model ----
(***************************************************************************)
(* json-schema-aot: a compiler from a subset of JSON Schema to parsing and *)
(* validating code.  The model has two levels, as the program has: the     *)
(* generator (generate-validator.ts, utils.ts) maps a schema document to a *)
(* program, and the emitted program is then run on an input value.         *)
(*                                                                         *)
(* JavaScript values (schema documents and input values alike) are tagged  *)
(* records [k, v]; objects keep their entries in insertion order.          *)
(***************************************************************************)
EXTENDS Integers, Sequences, FiniteSets, TLC

VARIABLES schema, json, pc, references, code, genError, validated, parsed,
          declarations, compiled, lastUntitledReferenceCount, lastUntitledTypeCount,
          checked, text, formatted

vars == <<schema, json, pc, references, code, genError, validated, parsed,
          declarations, compiled, lastUntitledReferenceCount, lastUntitledTypeCount,
          checked, text, formatted>>

(***************************************************************************)
(* JavaScript values                                                       *)
(***************************************************************************)
Undefined == [k |-> "undefined", v |-> <<>>]
Null == [k |-> "null", v |-> <<>>]
Str(s) == [k |-> "string", v |-> s]
Num(n) == [k |-> "number", v |-> n]
Bool(b) == [k |-> "boolean", v |-> b]
DateOf(t) == [k |-> "Date", v |-> t]
Arr(a) == [k |-> "array", v |-> a]
Obj(o) == [k |-> "object", v |-> o]

\* A thrown exception travelling up the generator's call stack.
Throw(kind, message) == [k |-> "throw", v |-> [kind |-> kind, message |-> message]]

IsThrow(x) == x.k = "throw"

IsStr(x, s) == x.k = "string" /\ x.v = s

IsBool(x, b) == x.k = "boolean" /\ x.v = b

\* typeof(x)
typeof(x) ==
    IF x.k \in {"string", "number", "boolean", "undefined"} THEN x.k ELSE "object"

\* The condition of `if (x)`, `x ? a : b`, `!x`, `x && y`.
Truthy(x) ==
    CASE x.k \in {"undefined", "null"} -> FALSE
      [] x.k = "boolean" -> x.v
      [] x.k = "number" -> x.v # 0
      [] x.k = "string" -> Len(x.v) > 0
      [] OTHER -> TRUE

\* Indexes that an array answers to as property names.
ArrayIndex == ("0" :> 1) @@ ("1" :> 2) @@ ("2" :> 3) @@ ("3" :> 4)

HasKey(o, key) == o.k = "object" /\ \E i \in 1..Len(o.v) : o.v[i][1] = key

\* o[key] for a value that is neither undefined nor null (own properties only).
Get(o, key) ==
    CASE o.k = "object" ->
           IF \E i \in 1..Len(o.v) : o.v[i][1] = key
           THEN o.v[CHOOSE i \in 1..Len(o.v) : o.v[i][1] = key][2]
           ELSE Undefined
      [] o.k = "array" ->
           IF key \in DOMAIN ArrayIndex /\ ArrayIndex[key] <= Len(o.v)
           THEN o.v[ArrayIndex[key]]
           ELSE Undefined
      [] OTHER -> Undefined

\* o[key] = val : an existing key keeps its place, a new key goes last.
Put(o, key, val) ==
    IF HasKey(o, key)
    THEN Obj([i \in 1..Len(o.v) |-> IF o.v[i][1] = key THEN <<key, val>> ELSE o.v[i]])
    ELSE Obj(Append(o.v, <<key, val>>))

RECURSIVE PutAll(_, _)
PutAll(o, entries) ==
    IF Len(entries) = 0 THEN o
    ELSE PutAll(Put(o, Head(entries)[1], Head(entries)[2]), Tail(entries))

\* { ...a, ...b }
Spread(a, b) == PutAll(a, b.v)

\* const { key, ...rest } = o : the rest
Without(o, key) == Obj(SelectSeq(o.v, LAMBDA e : e[1] # key))

Keys(o) == [i \in 1..Len(o.v) |-> o.v[i][1]]

(***************************************************************************)
(* Strings                                                                 *)
(***************************************************************************)
RECURSIVE Join(_, _)
\* array.join(sep)
Join(parts, sep) ==
    IF Len(parts) = 0 THEN ""
    ELSE IF Len(parts) = 1 THEN parts[1]
    ELSE parts[1] \o sep \o Join(Tail(parts), sep)

RECURSIVE SplitFrom(_, _, _, _)
SplitFrom(s, sep, i, start) ==
    IF i > Len(s) THEN <<SubSeq(s, start, Len(s))>>
    ELSE IF SubSeq(s, i, i) = sep
         THEN <<SubSeq(s, start, i - 1)>> \o SplitFrom(s, sep, i + 1, i + 1)
         ELSE SplitFrom(s, sep, i + 1, start)

\* string.split(sep) for a separator of one character
Split(s, sep) == SplitFrom(s, sep, 1, 1)

Contains(s, sub) ==
    \E i \in 1..(Len(s) - Len(sub) + 1) : SubSeq(s, i, i + Len(sub) - 1) = sub

\* `${x}` and String(x)
TemplateString(x) ==
    CASE x.k = "string" -> x.v
      [] x.k = "number" -> ToString(x.v)
      [] x.k = "boolean" -> IF x.v THEN "true" ELSE "false"
      [] x.k \in {"undefined", "null"} -> x.k
      [] x.k = "Date" -> x.v
      [] x.k = "array" -> Join([i \in 1..Len(x.v) |-> "[item]"], ",")
      [] x.k \in {"RangeError", "ReferenceError", "TypeError"} -> x.k \o ": " \o x.v
      [] OTHER -> "[object Object]"

(***************************************************************************)
(* utils.ts                                                                *)
(***************************************************************************)
LowerCase == "abcdefghijklmnopqrstuvwxyz"

UpperCase == "ABCDEFGHIJKLMNOPQRSTUVWXYZ"

Digits == "0123456789"

Chars(s) == {SubSeq(s, i, i) : i \in 1..Len(s)}

\* The character class [$a-zA-Z0-9]
SegmentChars == Chars(LowerCase) \cup Chars(UpperCase) \cup Chars(Digits) \cup {"$"}

IsSegment(s) == Len(s) > 0 /\ \A i \in 1..Len(s) : SubSeq(s, i, i) \in SegmentChars

\* A pattern whose segments are of letters and digits only: /^#((\/[a-zA-Z0-9]+)*)$/
internalReferencePatternPlain(reference) ==
    LET n == Len(reference)
        matched ==
            /\ n >= 1
            /\ SubSeq(reference, 1, 1) = "#"
            /\ \/ n = 1
               \/ /\ SubSeq(reference, 2, 2) = "/"
                  /\ \A i \in 1..Len(Split(SubSeq(reference, 3, n), "/")) :
                        IsSegment(Split(SubSeq(reference, 3, n), "/")[i])
                        /\ ~Contains(Split(SubSeq(reference, 3, n), "/")[i], "$")
    IN  [matched |-> matched, group1 |-> IF matched THEN SubSeq(reference, 2, n) ELSE ""]

\* internalReferencePattern.exec(reference): whether it matched, and matches[1].
internalReferencePattern(reference) ==
    LET n == Len(reference)
        matched ==
            /\ n >= 1
            /\ SubSeq(reference, 1, 1) = "#"
            /\ \/ n = 1
               \/ /\ SubSeq(reference, 2, 2) = "/"
                  /\ \A i \in 1..Len(Split(SubSeq(reference, 3, n), "/")) :
                        IsSegment(Split(SubSeq(reference, 3, n), "/")[i])
    IN  [matched |-> matched, group1 |-> IF matched THEN SubSeq(reference, 2, n) ELSE ""]

convertReferenceToPath(matches) ==
    IF Len(matches.group1) > 0
    THEN Split(SubSeq(matches.group1, 2, Len(matches.group1)), "/")
    ELSE <<>>

RECURSIVE evaluatePath(_, _)
\* Reading a property of undefined or null throws a TypeError.
evaluatePath(node, path) ==
    IF Len(path) = 0 THEN node
    ELSE IF node.k \in {"undefined", "null"}
         THEN Throw("TypeError", "Cannot read properties of " \o node.k)
         ELSE evaluatePath(Get(node, Head(path)), Tail(path))

\* evaluatePath(schema, path): every path.shift() takes an element off the
\* caller's array, which is empty when the walk has ended
pathAfterEvaluatePath(path) == <<>>

\* evaluatePath(schema, path.slice()): the shifts empty the copy, and the
\* caller's array keeps its elements
pathAfterEvaluateReference(path) == path

evaluateReference(root, reference, path) ==
    LET result == evaluatePath(root, path)
    IN  IF IsThrow(result)
        THEN Throw("GenerationError", "Failed to evaluate reference " \o reference)
        ELSE result

\* The registry: the entries of the `references` object in insertion order.
Registry(entries) == [k |-> "registry", v |-> entries]

HasReference(entries, reference) ==
    \E i \in 1..Len(entries) : entries[i].reference = reference

\* A registry that answers every lookup with its first entry
LookupFirst(entries, reference) == entries[1]

Lookup(entries, reference) ==
    entries[CHOOSE i \in 1..Len(entries) : entries[i].reference = reference]

\* references[reference] = entry
Register(entries, entry) ==
    IF HasReference(entries, entry.reference)
    THEN [i \in 1..Len(entries) |->
            IF entries[i].reference = entry.reference THEN entry ELSE entries[i]]
    ELSE Append(entries, entry)

RECURSIVE visitSchemaNodesRecursive(_, _, _, _)
RECURSIVE visitProperties(_, _, _, _)

\* A callback that goes on into the target of the reference it has registered,
\* as long as the path is short
referenceCallbackFollowing(acc, root, node, path) ==
    LET reference == Get(node, "$ref")
    IN  IF ~Truthy(reference) THEN acc
        ELSE LET matches == IF reference.k = "string"
                            THEN internalReferencePattern(reference.v)
                            ELSE [matched |-> FALSE, group1 |-> ""]
             IN  IF ~matches.matched
                 THEN Throw("GenerationError", "Unsupported reference in " \o Join(path, "."))
                 ELSE LET referencePath == convertReferenceToPath(matches)
                          target == evaluateReference(root, reference.v, referencePath)
                      IN  IF IsThrow(target) THEN target
                          ELSE IF Len(path) < 4 /\ target.k = "object"
                          THEN visitSchemaNodesRecursive(
                                   Registry(Register(acc.v,
                                       [reference |-> reference.v, name |-> Undefined,
                                        path |-> pathAfterEvaluateReference(referencePath),
                                        schema |-> target])),
                                   root, target, path \o <<"$ref">>)
                          ELSE Registry(Register(acc.v,
                                   [reference |-> reference.v, name |-> Undefined,
                                    path |-> pathAfterEvaluateReference(referencePath),
                                    schema |-> target]))

\* The visitor callback of accumulateReferences.
referenceCallback(acc, root, node, path) ==
    LET reference == Get(node, "$ref")
    IN  IF ~Truthy(reference) THEN acc
        ELSE LET matches == IF reference.k = "string"
                            THEN internalReferencePattern(reference.v)
                            ELSE [matched |-> FALSE, group1 |-> ""]
             IN  IF ~matches.matched
                 THEN Throw("GenerationError", "Unsupported reference in " \o Join(path, "."))
                 ELSE LET referencePath == convertReferenceToPath(matches)
                          target == evaluateReference(root, reference.v, referencePath)
                      IN  IF IsThrow(target) THEN target
                          ELSE Registry(Register(acc.v,
                                  [reference |-> reference.v, name |-> Undefined,
                                   path |-> pathAfterEvaluateReference(referencePath),
                                   schema |-> target]))

\* Object.entries(o)
Entries(o) ==
    CASE o.k = "object" -> o.v
      [] o.k = "array" -> [i \in 1..Len(o.v) |-> <<ToString(i - 1), o.v[i]>>]
      [] OTHER -> <<>>

visitSchemaNodesRecursive(acc, root, node, path) ==
    IF node.k \in {"undefined", "null"}
    THEN Throw("TypeError", "Cannot read properties of " \o node.k)
    ELSE
    LET visited == referenceCallback(acc, root, node, path)
        type == Get(node, "type")
    IN  IF IsThrow(visited) THEN visited
        ELSE CASE IsStr(type, "object") ->
                    IF Truthy(Get(node, "properties"))
                    THEN visitProperties(visited, root, Entries(Get(node, "properties")), path)
                    ELSE visited
               [] IsStr(type, "array") ->
                    IF ~Truthy(Get(node, "items"))
                    THEN Throw("GenerationError", "No items specified on array: " \o Join(path, "."))
                    ELSE visitSchemaNodesRecursive(visited, root, Get(node, "items"),
                                                   path \o <<"items">>)
               [] OTHER -> visited

visitProperties(acc, root, entries, path) ==
    IF Len(entries) = 0 THEN acc
    ELSE LET visited == visitSchemaNodesRecursive(acc, root, Head(entries)[2],
                                                  path \o <<"properties", Head(entries)[1]>>)
         IN  IF IsThrow(visited) THEN visited
             ELSE visitProperties(visited, root, Tail(entries), path)

visitSchemaNodes(acc, root) == visitSchemaNodesRecursive(acc, root, root, <<>>)

\* The registry, or the exception that ended the walk.
accumulateReferences(root) == visitSchemaNodes(Registry(<<>>), root)

RECURSIVE replaceLeadingBlanks(_, _, _)
\* code.replace(/^[ \t]+/mg, ""): a run of spaces and tabs is removed where it
\* starts at the beginning of the text or after a line terminator
replaceLeadingBlanks(source, i, atStart) ==
    IF i > Len(source) THEN ""
    ELSE IF atStart /\ SubSeq(source, i, i) \in {" ", "\t"}
    THEN replaceLeadingBlanks(source, i + 1, TRUE)
    ELSE SubSeq(source, i, i)
         \o replaceLeadingBlanks(source, i + 1, SubSeq(source, i, i) \in {"\n", "\r"})

\* cleaned.split(/\r?\n/g)
splitLines(cleaned) ==
    LET parts == Split(cleaned, "\n")
    IN  [i \in 1..Len(parts) |->
            IF i < Len(parts) /\ Len(parts[i]) > 0
               /\ SubSeq(parts[i], Len(parts[i]), Len(parts[i])) = "\r"
            THEN SubSeq(parts[i], 1, Len(parts[i]) - 1)
            ELSE parts[i]]

RECURSIVE repeat(_, _)
\* s.repeat(n)
repeat(s, n) == IF n = 0 THEN "" ELSE s \o repeat(s, n - 1)

StartsWithBrace(line) == Len(line) > 0 /\ SubSeq(line, 1, 1) = "}"

EndsWithBrace(line) == Len(line) > 0 /\ SubSeq(line, Len(line), Len(line)) = "{"

RECURSIVE formatLinesLate(_, _, _)
\* A loop that lowers the depth after it has emitted the line
formatLinesLate(lines, depth, tab) ==
    IF Len(lines) = 0 THEN ""
    ELSE LET line == Head(lines)
             lowered == IF StartsWithBrace(line) /\ depth > 0 THEN depth - 1 ELSE depth
         IN  repeat(tab, depth) \o line \o "\n"
             \o formatLinesLate(Tail(lines),
                                IF EndsWithBrace(line) THEN lowered + 1 ELSE lowered, tab)

RECURSIVE formatLines(_, _, _)
\* The loop over the lines: increase indent for lines ending with "{";
\* decrease for lines starting with "}"
formatLines(lines, depth, tab) ==
    IF Len(lines) = 0 THEN ""
    ELSE LET line == Head(lines)
             lowered == IF StartsWithBrace(line) /\ depth > 0 THEN depth - 1 ELSE depth
         IN  repeat(tab, lowered) \o line \o "\n"
             \o formatLines(Tail(lines),
                            IF EndsWithBrace(line) THEN lowered + 1 ELSE lowered, tab)

\* format(code, tabSize) of utils.ts (the name format is a schema keyword here)
formatCode(source, tabSize) ==
    formatLines(splitLines(replaceLeadingBlanks(source, 1, TRUE)), 0, repeat(" ", tabSize))

\* The default of the parameter tabSize
defaultTabSize == 4

UpperChar(c) ==
    IF \E i \in 1..Len(LowerCase) : SubSeq(LowerCase, i, i) = c
    THEN LET i == CHOOSE j \in 1..Len(LowerCase) : SubSeq(LowerCase, j, j) = c
         IN  SubSeq(UpperCase, i, i)
    ELSE c

capitalize(s) ==
    IF Len(s) = 0 THEN s ELSE UpperChar(SubSeq(s, 1, 1)) \o SubSeq(s, 2, Len(s))

RECURSIVE JoinCapitalized(_)
JoinCapitalized(words) ==
    IF Len(words) = 0 THEN ""
    ELSE capitalize(Head(words)) \o JoinCapitalized(Tail(words))

\* Whitespace is stripped and every word starts with a capital.
pascalCase(s) == JoinCapitalized(SelectSeq(Split(s, " "), LAMBDA w : Len(w) > 0))

(***************************************************************************)
(* generate-validator.ts: the generator.  The emitted text is kept as the  *)
(* tree of the statements it consists of; every node of the tree is one of *)
(* the templates of generateRecursive with its holes filled in.            *)
(***************************************************************************)
createVariablePrefix(path) ==
    IF Len(path) = 0 THEN "" ELSE Head(path) \o JoinCapitalized(Tail(path))

\* String formats that are parsed into Date objects
dateFormats == {"date", "date-time"}

errorHeaderOf(contextPath) ==
    "JSON validation error at "
        \o (IF Len(contextPath) > 0 THEN "\"" \o Join(contextPath, ".") \o "\"" ELSE "root")
        \o ":"

\* The first exception among the results of generating a list of parts.
FirstThrow(parts) == parts[CHOOSE i \in 1..Len(parts) :
                              IsThrow(parts[i]) /\ \A j \in 1..(i - 1) : ~IsThrow(parts[j])]

AnyThrow(parts) == \E i \in 1..Len(parts) : IsThrow(parts[i])

RECURSIVE mergeAllOf(_, _)
\* for (const item of schema.allOf) { subschema = { ...subschema, ...item } }
mergeAllOf(subschema, items) ==
    IF Len(items) = 0 THEN subschema
    ELSE IF Head(items).k \in {"undefined", "null"}
         THEN Throw("TypeError", "Cannot destructure " \o Head(items).k)
         ELSE mergeAllOf(Spread(subschema, Obj(Entries(Head(items)))), Tail(items))

RECURSIVE generateRecursive(_, _, _, _, _)

\* const requiredProperties = new Set(); for (... of schema.required) add
requiredPropertiesOf(required) ==
    IF Truthy(required) THEN {required.v[i].v : i \in 1..Len(required.v)} ELSE {}

\* A generator that counts every declared property once `required` is given
countsRequiredAll(required, propertyName) == Truthy(required)

\* Whether the case of a property starts with ++RequiredPropertyCount
countsRequired(required, propertyName) ==
    Truthy(required) /\ propertyName \in requiredPropertiesOf(required)

\* A generator that tests `!schema.additionalProperties`, taking false for absent
additionalPropertiesCaseFalsy(refs, node, prefix, contextPath, types) ==
    LET additionalProperties == Get(node, "additionalProperties")
    IN  IF IsBool(additionalProperties, TRUE) \/ ~Truthy(additionalProperties)
        THEN [k |-> "none"]
        ELSE generateRecursive(refs, additionalProperties, <<prefix \o "Value">>,
                               contextPath \o <<"additionalProperties">>, types)

\* The default case of the switch over the keys: none, a throw, or the code of
\* the additionalProperties schema
additionalPropertiesCase(refs, node, prefix, contextPath, types) ==
    LET additionalProperties == Get(node, "additionalProperties")
    IN  IF IsBool(additionalProperties, TRUE) \/ additionalProperties.k = "undefined"
        THEN [k |-> "none"]
        ELSE IF IsBool(additionalProperties, FALSE)
        THEN [k |-> "unexpected", key |-> prefix \o "Key",
              header |-> errorHeaderOf(contextPath)]
        ELSE generateRecursive(refs, additionalProperties, <<prefix \o "Value">>,
                               contextPath \o <<"additionalProperties">>, types)

generateRecursive(refs, node, valuePath, contextPath, types) ==
    LET valuePathString == Join(valuePath, ".")
        errorHeader == errorHeaderOf(contextPath)
        prefix == createVariablePrefix(valuePath)
        type == Get(node, "type")
    IN
    IF node.k \in {"undefined", "null"}
    THEN Throw("TypeError", "Cannot read properties of " \o node.k)
    ELSE IF Truthy(Get(node, "$ref")) THEN
        \* Reference
        IF Get(node, "$ref").k = "string" /\ HasReference(refs, Get(node, "$ref").v)
        THEN [k |-> "call",
              callee |-> "parse" \o TemplateString(Lookup(refs, Get(node, "$ref").v).name),
              value |-> valuePathString]
        ELSE Throw("TypeError", "Cannot read properties of undefined (reading 'name')")
    ELSE IF Truthy(Get(node, "anyOf")) THEN
        \* Union
        IF Get(node, "anyOf").k # "array"
        THEN Throw("TypeError", "schema.anyOf.map is not a function")
        ELSE LET branches == [i \in 1..Len(Get(node, "anyOf").v) |->
                                generateRecursive(refs, Get(node, "anyOf").v[i], valuePath,
                                                  contextPath \o <<"anyOf">>, types)]
             IN  IF AnyThrow(branches) THEN FirstThrow(branches)
                 ELSE [k |-> "anyOf", errors |-> prefix \o "Errors",
                       branches |-> branches, header |-> errorHeader]
    ELSE IF Truthy(Get(node, "allOf")) THEN
        \* Intersection: just merge the schema
        IF Get(node, "allOf").k # "array"
        THEN Throw("TypeError", "schema.allOf is not iterable")
        ELSE LET subschema == mergeAllOf(Obj(<<>>), Get(node, "allOf").v)
             IN  IF IsThrow(subschema) THEN subschema
                 ELSE generateRecursive(refs, subschema, valuePath,
                                        contextPath \o <<"allOf">>, types)
    ELSE IF IsStr(type, "number") \/ IsStr(type, "boolean") THEN
        [k |-> "typeof", value |-> valuePathString, type |-> type.v, header |-> errorHeader]
    ELSE IF IsStr(type, "string") THEN
        IF /\ Truthy(Get(node, "format"))
           /\ Get(node, "format").k = "string"
           /\ Get(node, "format").v \in dateFormats
        THEN \* Date string; allow Date to support parsed values
             [k |-> "date", value |-> valuePathString, header |-> errorHeader]
        ELSE \* Generic string
             [k |-> "string", value |-> valuePathString,
              pattern |-> IF Truthy(Get(node, "pattern")) THEN Get(node, "pattern") ELSE Undefined,
              header |-> errorHeader]
    ELSE IF IsStr(type, "object") THEN
        LET required == Get(node, "required")
            properties == IF Get(node, "properties").k \in {"undefined", "null"}
                          THEN <<>> ELSE Entries(Get(node, "properties"))
            cases == [i \in 1..Len(properties) |->
                        generateRecursive(refs, properties[i][2], <<prefix \o "Value">>,
                                          contextPath \o <<properties[i][1]>>, types)]
            default == additionalPropertiesCase(refs, node, prefix, contextPath, types)
        IN  IF Truthy(required) /\ required.k # "array"
            THEN Throw("TypeError", "schema.required is not iterable")
            ELSE IF AnyThrow(cases) THEN FirstThrow(cases)
            ELSE IF IsThrow(default) THEN default
            ELSE [k |-> "object", value |-> valuePathString,
                  counter |-> IF Truthy(required)
                              THEN Str(prefix \o "RequiredPropertyCount") ELSE Undefined,
                  result |-> prefix \o "ResultObject",
                  key |-> prefix \o "Key",
                  element |-> prefix \o "Value",
                  cases |-> [i \in 1..Len(properties) |->
                               [label |-> properties[i][1],
                                count |-> countsRequired(required, properties[i][1]),
                                body |-> cases[i]]],
                  default |-> default,
                  requiredLength |-> IF Truthy(required) THEN Len(required.v) ELSE 0,
                  requiredList |-> IF Truthy(required)
                                   THEN Join([i \in 1..Len(required.v) |-> required.v[i].v], ", ")
                                   ELSE "",
                  any |-> types,
                  header |-> errorHeader]
    ELSE IF IsStr(type, "array") THEN
        IF ~Truthy(Get(node, "items"))
        THEN Throw("GenerationError", "No item definition for array: " \o Join(contextPath, "."))
        ELSE LET body == generateRecursive(refs, Get(node, "items"), <<prefix \o "Element">>,
                                           contextPath \o <<"items">>, types)
             IN  IF IsThrow(body) THEN body
                 ELSE [k |-> "array", value |-> valuePathString,
                       element |-> prefix \o "Element", body |-> body,
                       header |-> errorHeader]
    ELSE Throw("GenerationError", "No type specified on " \o Join(contextPath, "."))

\* A generator that spreads the declared properties first, so that the $schema
\* string replaces a declared $schema
rootOfOverriding(input) ==
    IF input.k \in {"undefined", "null"}
    THEN Throw("TypeError", "Cannot read properties of " \o input.k)
    ELSE IF IsStr(Get(input, "type"), "object")
    THEN LET properties == Get(input, "properties")
             rest == Without(input, "properties")
         IN  IF properties.k \in {"undefined", "null"}
             THEN Throw("TypeError", "Cannot destructure 'properties' as it is " \o properties.k)
             ELSE Spread(Obj(<< <<"properties",
                                   Spread(Obj(Entries(properties)),
                                          Obj(<< <<"$schema", Obj(<< <<"type", Str("string")>> >>)>> >>))>> >>),
                         rest)
    ELSE input

\* The root that code is generated from: $schema is allowed as a string at the
\* root of objects, even if not specified.
rootOf(input) ==
    IF input.k \in {"undefined", "null"}
    THEN Throw("TypeError", "Cannot read properties of " \o input.k)
    ELSE IF IsStr(Get(input, "type"), "object")
    THEN LET properties == Get(input, "properties")
             rest == Without(input, "properties")
         IN  IF properties.k \in {"undefined", "null"}
             THEN \* const { ...propertiesRest } = properties
                  Throw("TypeError", "Cannot destructure 'properties' as it is " \o properties.k)
             ELSE Spread(Obj(<< <<"properties",
                                   Spread(Obj(<< <<"$schema", Obj(<< <<"type", Str("string")>> >>)>> >>),
                                          Obj(Entries(properties)))>> >>),
                         rest)
    ELSE input

\* A counter that lives on from one call of generateParser to the next
untitledReferenceCountKept == lastUntitledReferenceCount

\* let untitledReferenceCount = 0
untitledReferenceCountAtEntry == 0

RECURSIVE assignNamesPathFirst(_, _, _)
\* A naming loop that looks at the path before it looks at the title
assignNamesPathFirst(entries, i, untitledReferenceCount) ==
    IF i > Len(entries) THEN Registry(entries)
    ELSE LET reference == entries[i]
         IN  IF reference.schema.k \in {"undefined", "null"}
             THEN Throw("TypeError", "Cannot read properties of undefined (reading 'title')")
             ELSE LET title == Get(reference.schema, "title")
                      untitled == ~Truthy(title) /\ Len(reference.path) = 0
                      name == IF Len(reference.path) > 0
                              THEN pascalCase(reference.path[Len(reference.path)])
                              ELSE IF Truthy(title) THEN pascalCase(TemplateString(title))
                              ELSE "UntitledReference" \o ToString(untitledReferenceCount + 1)
                  IN  assignNamesPathFirst([entries EXCEPT ![i].name = Str(name)], i + 1,
                                           IF untitled THEN untitledReferenceCount + 1
                                           ELSE untitledReferenceCount)

RECURSIVE assignNames(_, _, _)
\* Create names for all the referenced subschemas: use the title, if provided, or
\* use the property's name, otherwise generate a name.
assignNames(entries, i, untitledReferenceCount) ==
    IF i > Len(entries) THEN Registry(entries)
    ELSE LET reference == entries[i]
         IN  IF reference.schema.k \in {"undefined", "null"}
             THEN Throw("TypeError", "Cannot read properties of undefined (reading 'title')")
             ELSE LET title == Get(reference.schema, "title")
                      untitled == ~Truthy(title) /\ Len(reference.path) = 0
                      name == IF Truthy(title) THEN pascalCase(TemplateString(title))
                              ELSE IF Len(reference.path) > 0
                              THEN pascalCase(reference.path[Len(reference.path)])
                              ELSE "UntitledReference" \o ToString(untitledReferenceCount + 1)
                  IN  assignNames([entries EXCEPT ![i].name = Str(name)], i + 1,
                                  IF untitled THEN untitledReferenceCount + 1
                                  ELSE untitledReferenceCount)

\* The function declarations in the order they are emitted: the helpers of the
\* referenced subschemas, parse, validate
emitFunctions(named, helpers, body, rootTypeName) ==
    IF AnyThrow(helpers) THEN FirstThrow(helpers)
    ELSE IF IsThrow(body) THEN body
    ELSE [k |-> "program",
          references |-> named,
          functions |->
              [i \in 1..Len(named) |->
                  [name |-> "parse" \o TemplateString(named[i].name),
                   param |-> "json", body |-> helpers[i]]]
              \o << [name |-> "parse", param |-> "json", body |-> body],
                    [name |-> "validate", param |-> "json",
                     body |-> [k |-> "validate", callee |-> "parse", value |-> "json"]] >>,
          returnType |-> rootTypeName]

\* Generate helpers for all referenced subschemas, then the validator
generateFunctions(root, named, types, rootTypeName) ==
    IF IsThrow(named) THEN named
    ELSE emitFunctions(
             named.v,
             [i \in 1..Len(named.v) |->
                 generateRecursive(named.v, named.v[i].schema, <<"json">>,
                                   named.v[i].path, types)],
             IF HasReference(named.v, "#")
             THEN [k |-> "call",
                   callee |-> "parse" \o TemplateString(Lookup(named.v, "#").name),
                   value |-> "json"]
             ELSE generateRecursive(named.v, root, <<"json">>, <<>>, types),
             rootTypeName)

\* Find all references, then create names for all the referenced subschemas
generateNamed(root, found, types, rootTypeName) ==
    IF IsThrow(found) THEN found
    ELSE generateFunctions(root, assignNames(found.v, 1, untitledReferenceCountAtEntry),
                           types, rootTypeName)

generateFromRoot(root, types, rootTypeName) ==
    IF IsThrow(root) THEN root
    ELSE generateNamed(root, accumulateReferences(root), types, rootTypeName)

\* The emitted program: its function declarations in order, or the exception
\* that ended the generation.
generateParser(input, types, rootTypeName) ==
    generateFromRoot(rootOf(input), types, rootTypeName)

generateJavaScriptParser(input) == generateParser(input, FALSE, Undefined)

generateTypeScriptParser(input, rootTypeName) == generateParser(input, TRUE, rootTypeName)

(***************************************************************************)
(* generate-declarations.ts.  The emitted declarations are kept as the     *)
(* list of the named definitions, each with the tree of its type           *)
(* expression.                                                             *)
(***************************************************************************)
\* title.replace(/\s+/g, "")
createTypeScriptNameFromTitle(title) == Join(Split(title, " "), "")

RECURSIVE accumulateTitlesRecursive(_, _, _)
RECURSIVE accumulateTitlesOfProperties(_, _, _)

\* visitSchemaNodes with the callback of accumulateTitles: a titled node is
\* entered under its title
accumulateTitlesRecursive(acc, node, path) ==
    IF node.k \in {"undefined", "null"}
    THEN Throw("TypeError", "Cannot read properties of " \o node.k)
    ELSE IF Truthy(Get(node, "title")) /\ Get(node, "title").k # "string"
    THEN Throw("TypeError", "title.replace is not a function")
    ELSE LET visited ==
                 IF Truthy(Get(node, "title"))
                 THEN Registry(Register(acc.v,
                          [reference |-> Get(node, "title").v,
                           name |-> Str(createTypeScriptNameFromTitle(Get(node, "title").v)),
                           path |-> path, schema |-> node]))
                 ELSE acc
         IN  CASE IsStr(Get(node, "type"), "object") ->
                    IF Truthy(Get(node, "properties"))
                    THEN accumulateTitlesOfProperties(visited,
                                                      Entries(Get(node, "properties")), path)
                    ELSE visited
               [] IsStr(Get(node, "type"), "array") ->
                    IF ~Truthy(Get(node, "items"))
                    THEN Throw("GenerationError",
                               "No items specified on array: " \o Join(path, "."))
                    ELSE accumulateTitlesRecursive(visited, Get(node, "items"),
                                                   path \o <<"items">>)
               [] OTHER -> visited

accumulateTitlesOfProperties(acc, entries, path) ==
    IF Len(entries) = 0 THEN acc
    ELSE LET visited == accumulateTitlesRecursive(acc, Head(entries)[2],
                                                  path \o <<"properties", Head(entries)[1]>>)
         IN  IF IsThrow(visited) THEN visited
             ELSE accumulateTitlesOfProperties(visited, Tail(entries), path)

\* The titles in the order met, or the exception that ended the walk
accumulateTitles(root) == accumulateTitlesRecursive(Registry(<<>>), root, <<>>)

\* stringUnionPatternPattern.exec(pattern): whether it matched, and matches[1]
stringUnionPatternPattern(pattern) ==
    LET n == Len(pattern)
        matched ==
            /\ n >= 5
            /\ SubSeq(pattern, 1, 2) = "^(" /\ SubSeq(pattern, n - 1, n) = ")$"
            /\ \A i \in 1..Len(Split(SubSeq(pattern, 3, n - 2), "|")) :
                  IsSegment(Split(SubSeq(pattern, 3, n - 2), "|")[i])
    IN  [matched |-> matched, group1 |-> IF matched THEN SubSeq(pattern, 3, n - 2) ELSE ""]

RECURSIVE generateTypeScriptDeclarationsRecursive(_, _, _)

generateTypeScriptDeclarationsRecursive(refs, node, contextPath) ==
    LET type == Get(node, "type")
    IN
    IF node.k \in {"undefined", "null"}
    THEN Throw("TypeError", "Cannot read properties of " \o node.k)
    ELSE IF Truthy(Get(node, "$ref")) THEN
        \* Reference
        IF Get(node, "$ref").k = "string" /\ HasReference(refs, Get(node, "$ref").v)
        THEN [k |-> "name", name |-> TemplateString(Lookup(refs, Get(node, "$ref").v).name)]
        ELSE Throw("TypeError", "Cannot read properties of undefined (reading 'name')")
    ELSE IF Truthy(Get(node, "anyOf")) THEN
        \* Union
        IF Get(node, "anyOf").k # "array"
        THEN Throw("TypeError", "schema.anyOf.map is not a function")
        ELSE LET parts == [i \in 1..Len(Get(node, "anyOf").v) |->
                             generateTypeScriptDeclarationsRecursive(
                                 refs, Get(node, "anyOf").v[i], contextPath \o <<"anyOf">>)]
             IN  IF AnyThrow(parts) THEN FirstThrow(parts)
                 ELSE [k |-> "union", parts |-> parts]
    ELSE IF Truthy(Get(node, "allOf")) THEN
        \* Intersection
        IF Get(node, "allOf").k # "array"
        THEN Throw("TypeError", "schema.allOf.map is not a function")
        ELSE LET parts == [i \in 1..Len(Get(node, "allOf").v) |->
                             generateTypeScriptDeclarationsRecursive(
                                 refs, Get(node, "allOf").v[i], contextPath \o <<"allOf">>)]
             IN  IF AnyThrow(parts) THEN FirstThrow(parts)
                 ELSE [k |-> "intersection", parts |-> parts]
    ELSE IF IsStr(type, "number") \/ IsStr(type, "boolean") THEN
        [k |-> "keyword", type |-> type.v]
    ELSE IF IsStr(type, "string") THEN
        \* Check to see if the pattern indicates a union of string literals
        IF /\ Truthy(Get(node, "pattern"))
           /\ stringUnionPatternPattern(TemplateString(Get(node, "pattern"))).matched
        THEN [k |-> "literals",
              values |-> Split(stringUnionPatternPattern(
                                   TemplateString(Get(node, "pattern"))).group1, "|")]
        ELSE [k |-> "keyword", type |-> type.v]
    ELSE IF IsStr(type, "object") THEN
        LET required == Get(node, "required")
            properties == IF Truthy(Get(node, "properties"))
                          THEN Entries(Get(node, "properties")) ELSE <<>>
            members == [i \in 1..Len(properties) |->
                          generateTypeScriptDeclarationsRecursive(
                              refs, properties[i][2],
                              contextPath \o <<"properties", properties[i][1]>>)]
            additionalProperties == Get(node, "additionalProperties")
            index == IF ~Truthy(additionalProperties) THEN [k |-> "none"]
                     ELSE IF IsBool(additionalProperties, TRUE) THEN [k |-> "any"]
                     ELSE generateTypeScriptDeclarationsRecursive(
                              refs, additionalProperties,
                              contextPath \o <<"additionalProperties">>)
        IN  IF Truthy(required) /\ required.k # "array"
            THEN Throw("TypeError", "schema.required is not iterable")
            ELSE IF AnyThrow(members) THEN FirstThrow(members)
            ELSE IF IsThrow(index) THEN index
            ELSE [k |-> "object",
                  members |-> [i \in 1..Len(properties) |->
                                 [name |-> properties[i][1],
                                  optional |-> properties[i][1]
                                                  \notin requiredPropertiesOf(required),
                                  type |-> members[i]]],
                  index |-> index]
    ELSE IF IsStr(type, "array") THEN
        LET element == generateTypeScriptDeclarationsRecursive(
                           refs, Get(node, "items"), contextPath \o <<"items">>)
        IN  IF IsThrow(element) THEN element ELSE [k |-> "array", element |-> element]
    ELSE Throw("GenerationError", "No type specified for " \o Join(contextPath, "."))

RECURSIVE JoinTokens(_, _)
\* parts.join(` ${sep} `), as tokens
JoinTokens(parts, sep) ==
    IF Len(parts) = 0 THEN <<>>
    ELSE IF Len(parts) = 1 THEN parts[1]
    ELSE parts[1] \o <<sep>> \o JoinTokens(Tail(parts), sep)

RECURSIVE RenderType(_)
RECURSIVE RenderMembers(_)
\* The text that generateTypeScriptDeclarationsRecursive returns for a tree,
\* as the list of its tokens: the alternatives joined with | or &, the members
\* between braces, the element followed by []
RenderType(body) ==
    CASE body.k = "name" -> <<body.name>>
      [] body.k = "keyword" -> <<body.type>>
      [] body.k = "literals" ->
            JoinTokens([i \in 1..Len(body.values) |-> <<"\"" \o body.values[i] \o "\"">>], "|")
      [] body.k = "union" ->
            JoinTokens([i \in 1..Len(body.parts) |-> RenderType(body.parts[i])], "|")
      [] body.k = "intersection" ->
            JoinTokens([i \in 1..Len(body.parts) |-> RenderType(body.parts[i])], "&")
      [] body.k = "object" ->
            <<"{">> \o RenderMembers(body.members)
            \o (CASE body.index.k = "none" -> <<>>
                  [] body.index.k = "any" -> <<"[key: string]", ":", "any", ",">>
                  [] OTHER -> <<"[key: string]", ":">> \o RenderType(body.index) \o <<",">>)
            \o <<"}">>
      [] body.k = "array" -> RenderType(body.element) \o <<"[]">>

RenderMembers(members) ==
    IF Len(members) = 0 THEN <<>>
    ELSE <<Head(members).name>> \o (IF Head(members).optional THEN <<"?">> ELSE <<>>)
         \o <<":">> \o RenderType(Head(members).type) \o <<",">>
         \o RenderMembers(Tail(members))

\* let untitledTypeCount = 0
untitledTypeCountAtEntry == 0

RECURSIVE assignTypeNames(_, _, _)
\* Create names for all the referenced subschemas: the title or UntitledType<n>
assignTypeNames(entries, i, count) ==
    IF i > Len(entries) THEN Registry(entries)
    ELSE IF entries[i].schema.k \in {"undefined", "null"}
    THEN Throw("TypeError", "Cannot read properties of undefined (reading 'title')")
    ELSE IF Truthy(Get(entries[i].schema, "title"))
    THEN IF Get(entries[i].schema, "title").k # "string"
         THEN Throw("TypeError", "title.replace is not a function")
         ELSE assignTypeNames(
                  [entries EXCEPT ![i].name =
                      Str(createTypeScriptNameFromTitle(Get(entries[i].schema, "title").v))],
                  i + 1, count)
    ELSE assignTypeNames([entries EXCEPT ![i].name = Str("UntitledType" \o ToString(count + 1))],
                         i + 1, count + 1)

HasType(types, name) == \E i \in 1..Len(types) : types[i].name = name

\* typesToGenerate[name] = entry
PutType(types, entry) ==
    IF HasType(types, entry.name)
    THEN [i \in 1..Len(types) |-> IF types[i].name = entry.name THEN entry ELSE types[i]]
    ELSE Append(types, entry)

RECURSIVE typesOfReferences(_, _)
\* typesToGenerate after the loop over the references
typesOfReferences(types, entries) ==
    IF Len(entries) = 0 THEN types
    ELSE typesOfReferences(PutType(types, [name |-> Head(entries).name.v,
                                           path |-> Head(entries).path,
                                           schema |-> Head(entries).schema]),
                           Tail(entries))

RECURSIVE typesOfTitles(_, _)
\* Add unreferenced titled types to the list of types to generate
typesOfTitles(types, titles) ==
    IF Len(titles) = 0 THEN types
    ELSE typesOfTitles(IF HasType(types, Head(titles).name.v) THEN types
                       ELSE Append(types, [name |-> Head(titles).name.v,
                                           path |-> Head(titles).path,
                                           schema |-> Head(titles).schema]),
                       Tail(titles))

\* The kinds of subschema the switch over subschema.type emits a definition for
EmitsType(subschema) ==
    Get(subschema, "type").k = "string"
    /\ Get(subschema, "type").v \in {"string", "number", "boolean", "array", "object"}

\* export type <name> = ...; or export interface <name> ...
emitDeclarations(named, emitted, bodies) ==
    IF AnyThrow(bodies) THEN FirstThrow(bodies)
    ELSE [k |-> "declarations",
          references |-> named,
          types |-> [i \in 1..Len(emitted) |->
                       [name |-> emitted[i].name,
                        path |-> emitted[i].path,
                        keyword |-> IF IsStr(Get(emitted[i].schema, "type"), "object")
                                    THEN "interface" ELSE "type",
                        described |-> Truthy(Get(emitted[i].schema, "description")),
                        body |-> bodies[i],
                        tokens |-> RenderType(bodies[i])]]]

generateEmitted(named, emitted) ==
    emitDeclarations(named, emitted,
                     [i \in 1..Len(emitted) |->
                        generateTypeScriptDeclarationsRecursive(named, emitted[i].schema,
                                                                emitted[i].path)])

\* Generate interfaces for all referenced subschemas: the switch over
\* subschema.type has no case for a subschema of another kind
generateTypes(named, types) ==
    generateEmitted(named, SelectSeq(types, LAMBDA t : EmitsType(t.schema)))

\* Find all titled types
declareTitled(named, titles) ==
    IF IsThrow(titles) THEN titles
    ELSE generateTypes(named, typesOfTitles(typesOfReferences(<<>>, named), titles.v))

declareNamed(input, named) ==
    IF IsThrow(named) THEN named ELSE declareTitled(named.v, accumulateTitles(input))

\* Find all references, then create names for all the referenced subschemas
declareFound(input, found) ==
    IF IsThrow(found) THEN found
    ELSE declareNamed(input, assignTypeNames(found.v, 1, untitledTypeCountAtEntry))

\* The emitted definitions in order, or the exception that ended the generation
generateTypeScriptDeclarations(input) == declareFound(input, accumulateReferences(input))

\* The entries the naming loop reached before it ended
Reached(entries) ==
    {i \in 1..Len(entries) :
        \A j \in 1..i : entries[j].schema.k \notin {"undefined", "null"}}

\* The counters as the naming loops leave them
untitledReferencesAfter(entries, count) ==
    count + Cardinality({i \in Reached(entries) :
                            /\ ~Truthy(Get(entries[i].schema, "title"))
                            /\ Len(entries[i].path) = 0})

untitledTypesAfter(entries, count) ==
    count + Cardinality({i \in Reached(entries) : ~Truthy(Get(entries[i].schema, "title"))})

(***************************************************************************)
(* The emitted program at run time.  Exec runs one emitted statement tree  *)
(* in an environment binding the identifiers in scope; it completes by     *)
(* `return` or by `throw`, and carries the list of union branches tried.   *)
(***************************************************************************)
\* Frames left before the engine throws a RangeError (stack overflow).
MaxCallDepth == 8

Return(value, trace) == [k |-> "return", v |-> value, trace |-> trace]

Raise(error, trace) == [k |-> "throw", v |-> error, trace |-> trace]

\* new Date(x) for a string or a Date: the instant as an ISO string, or NaN.
newDate(x) ==
    IF x.k = "Date" THEN DateOf(x.v)
    ELSE LET s == x.v
             digitsAt(from, to) == \A i \in from..to : SubSeq(s, i, i) \in Chars(Digits)
             isDate == /\ Len(s) >= 10
                       /\ digitsAt(1, 4) /\ SubSeq(s, 5, 5) = "-"
                       /\ digitsAt(6, 7) /\ SubSeq(s, 8, 8) = "-"
                       /\ digitsAt(9, 10)
         IN  IF isDate /\ Len(s) = 10 THEN DateOf(s \o "T00:00:00.000Z")
             ELSE IF /\ isDate /\ Len(s) = 24
                     /\ SubSeq(s, 11, 11) = "T" /\ SubSeq(s, 24, 24) = "Z"
                     /\ digitsAt(12, 13) /\ SubSeq(s, 14, 14) = ":"
                     /\ digitsAt(15, 16) /\ SubSeq(s, 17, 17) = ":"
                     /\ digitsAt(18, 19) /\ SubSeq(s, 20, 20) = "."
                     /\ digitsAt(21, 23)
             THEN DateOf(s)
             ELSE DateOf("NaN")

\* One alternative of a pattern: an optional ^, a literal or a parenthesised
\* alternation of literals, an optional $.
AlternativeTest(alternative, s) ==
    LET n == Len(alternative)
        atStart == n >= 1 /\ SubSeq(alternative, 1, 1) = "^"
        atEnd == n >= 1 /\ SubSeq(alternative, n, n) = "$"
        inner == SubSeq(alternative, IF atStart THEN 2 ELSE 1, IF atEnd THEN n - 1 ELSE n)
        m == Len(inner)
        grouped == m >= 2 /\ SubSeq(inner, 1, 1) = "(" /\ SubSeq(inner, m, m) = ")"
        literals == IF grouped THEN Split(SubSeq(inner, 2, m - 1), "|") ELSE <<inner>>
    IN  \E i \in 1..Len(literals) :
            LET lit == literals[i]
            IN  CASE atStart /\ atEnd -> s = lit
                  [] atStart -> Len(s) >= Len(lit) /\ SubSeq(s, 1, Len(lit)) = lit
                  [] atEnd -> Len(s) >= Len(lit)
                              /\ SubSeq(s, Len(s) - Len(lit) + 1, Len(s)) = lit
                  [] OTHER -> Contains(s, lit)

\* internalReferencePattern.source
internalReferencePatternSource == "^#(\\/[$a-zA-Z0-9]+)*$"

\* /pattern/.test(s), for the pattern of internal references and for the
\* patterns made of literals, ^, $, | and one group
RegExpTest(pattern, s) ==
    IF pattern = internalReferencePatternSource THEN internalReferencePattern(s).matched
    ELSE IF Contains(pattern, "(") THEN AlternativeTest(pattern, s)
    ELSE \E i \in 1..Len(Split(pattern, "|")) : AlternativeTest(Split(pattern, "|")[i], s)

\* if (typeof(value) !== "number") { throw ... } return value;
ExecTypeof(node, value) ==
    IF typeof(value) # node.type
    THEN Raise(Str(node.header \o " expected " \o node.type
                     \o ", but encountered " \o typeof(value)), <<>>)
    ELSE Return(value, <<>>)

\* Emitted code that returns the value it checked, without new Date
ExecDateKeep(node, value) ==
    IF typeof(value) # "string" /\ value.k # "Date"
    THEN Raise(Str(node.header \o " expected string or Date, but encountered "
                     \o typeof(value)), <<>>)
    ELSE Return(value, <<>>)

\* if (typeof(value) !== "string" && !(value instanceof Date)) { throw ... }
\* return new Date(value);
ExecDate(node, value) ==
    IF typeof(value) # "string" /\ value.k # "Date"
    THEN Raise(Str(node.header \o " expected string or Date, but encountered "
                     \o typeof(value)), <<>>)
    ELSE Return(newDate(value), <<>>)

\* The typeof check of a generic string, then its pattern check if it has one.
ExecString(node, value) ==
    IF typeof(value) # "string"
    THEN Raise(Str(node.header \o " expected string, but encountered "
                     \o typeof(value)), <<>>)
    ELSE IF node.pattern.k # "undefined"
            /\ ~RegExpTest(TemplateString(node.pattern), value.v)
    THEN Raise(Str(node.header \o " string did not match pattern /"
                     \o TemplateString(node.pattern) \o "/: " \o value.v), <<>>)
    ELSE Return(value, <<>>)

\* Emitted code that takes the typeof of a value for its kind: an array passes
\* for an object
ObjectGuardTypeofOnly(node, value) ==
    IF value.k = "null"
    THEN Raise(Str(node.header \o " expected object, but encountered null"), <<>>)
    ELSE IF typeof(value) # "object"
    THEN Raise(Str(node.header \o " expected object, but encountered "
                     \o typeof(value)), <<>>)
    ELSE Return(value, <<>>)

\* The three checks that open the code of an object node.
ObjectGuard(node, value) ==
    IF value.k = "null"
    THEN Raise(Str(node.header \o " expected object, but encountered null"), <<>>)
    ELSE IF typeof(value) # "object"
    THEN Raise(Str(node.header \o " expected object, but encountered "
                     \o typeof(value)), <<>>)
    ELSE IF value.k = "array"
    THEN Raise(Str(node.header \o " expected object, but encountered an array"), <<>>)
    ELSE Return(value, <<>>)

\* The check that opens the code of an array node.
ArrayGuard(node, value) ==
    IF typeof(value) # "object" \/ value.k # "array"
    THEN Raise(Str(node.header \o " expected array, but encountered "
                     \o typeof(value)), <<>>)
    ELSE Return(value, <<>>)

\* if (schema.required) is emitted: if (count !== schema.required.length) throw
RequiredCheckFails(node, count) ==
    node.counter.k = "string" /\ count # node.requiredLength

HasFunction(program, callee) ==
    \E i \in 1..Len(program.functions) : program.functions[i].name = callee

\* Of several declarations of one name in a scope the last one is in force.
FunctionNamed(program, callee) ==
    program.functions[CHOOSE i \in 1..Len(program.functions) :
        /\ program.functions[i].name = callee
        /\ \A j \in (i + 1)..Len(program.functions) : program.functions[j].name # callee]

RECURSIVE Exec(_, _, _, _)
RECURSIVE CallFunction(_, _, _, _)
RECURSIVE ExecBranches(_, _, _, _, _, _, _)
RECURSIVE ExecEntries(_, _, _, _, _, _, _, _)
RECURSIVE ExecElements(_, _, _, _, _, _, _)

CallFunction(program, callee, argument, depth) ==
    IF ~HasFunction(program, callee)
    THEN Raise([k |-> "ReferenceError", v |-> callee \o " is not defined"], <<>>)
    ELSE IF depth = 0
    THEN Raise([k |-> "RangeError", v |-> "Maximum call stack size exceeded"], <<>>)
    ELSE LET fn == FunctionNamed(program, callee)
         IN  Exec(program, fn.body, (fn.param :> argument), depth - 1)

RECURSIVE ExecBranchesFailFast(_, _, _, _, _, _, _)
\* Emitted code without the try: the first branch that fails ends the union
ExecBranchesFailFast(program, node, i, errors, env, depth, trace) ==
    IF i > Len(node.branches)
    THEN Raise(Str(node.header \o " failed to match any of the specified types: "
                     \o Join([j \in 1..Len(errors) |-> TemplateString(errors[j])], "\n\n")),
               trace)
    ELSE LET done == Exec(program, node.branches[i], env, depth)
             seen == trace \o <<[at |-> node.header, branch |-> i]>> \o done.trace
         IN  IF done.k = "return" THEN Return(done.v, seen)
             ELSE Raise(Str(node.header \o " failed to match any of the specified types: "
                              \o TemplateString(done.v)), seen)

RECURSIVE ExecBranchesLastMatch(_, _, _, _, _, _, _)
\* Emitted code that assigns a result in each try instead of returning: every
\* branch runs and the last one that succeeds decides the result
ExecBranchesLastMatch(program, node, i, errors, env, depth, trace) ==
    IF i > Len(node.branches)
    THEN IF Len(errors) > 0 /\ errors[Len(errors)].k = "matched"
         THEN Return(errors[Len(errors)].v, trace)
         ELSE Raise(Str(node.header \o " failed to match any of the specified types: "
                          \o Join([j \in 1..Len(errors) |-> TemplateString(errors[j])], "\n\n")),
                    trace)
    ELSE LET done == Exec(program, node.branches[i], env, depth)
             seen == trace \o <<[at |-> node.header, branch |-> i]>> \o done.trace
             matched == Len(errors) > 0 /\ errors[Len(errors)].k = "matched"
             kept == IF matched THEN SubSeq(errors, 1, Len(errors) - 1) ELSE errors
         IN  IF done.k = "return"
             THEN ExecBranchesLastMatch(program, node, i + 1,
                                        Append(kept, [k |-> "matched", v |-> done.v]),
                                        env, depth, seen)
             ELSE ExecBranchesLastMatch(program, node, i + 1,
                                        IF matched THEN errors
                                        ELSE Append(errors, done.v),
                                        env, depth, seen)

\* try { branch } catch (error) { errors.push(error) } for each branch in turn,
\* then the throw that follows the last of them
ExecBranches(program, node, i, errors, env, depth, trace) ==
    IF i > Len(node.branches)
    THEN Raise(Str(node.header \o " failed to match any of the specified types: "
                     \o Join([j \in 1..Len(errors) |-> TemplateString(errors[j])], "\n\n")),
               trace)
    ELSE LET done == Exec(program, node.branches[i], env, depth)
             seen == trace \o <<[at |-> node.header, branch |-> i]>> \o done.trace
         IN  IF done.k = "return" THEN Return(done.v, seen)
             ELSE ExecBranches(program, node, i + 1, Append(errors, done.v), env, depth, seen)

\* The for loop over Object.entries(value): every entry goes through the switch
ExecEntries(program, node, entries, result, count, env, depth, trace) ==
    IF Len(entries) = 0
    THEN IF RequiredCheckFails(node, count)
         THEN Raise(Str(node.header \o " missing at least one required property from the list: ["
                          \o node.requiredList \o "]"), trace)
         ELSE Return(result, trace)
    ELSE LET key == Head(entries)[1]
             inner == (node.key :> Str(key)) @@ (node.element :> Head(entries)[2]) @@ env
             matching == {i \in 1..Len(node.cases) : node.cases[i].label = key}
             case == node.cases[CHOOSE i \in matching : TRUE]
             done == IF matching # {} THEN Exec(program, case.body, inner, depth)
                     ELSE IF node.default.k = "none" THEN Return(Undefined, <<>>)
                     ELSE IF node.default.k = "unexpected"
                     THEN Raise(Str(node.default.header \o " encountered unexpected property: "
                                      \o key), <<>>)
                     ELSE Exec(program, node.default, inner, depth)
         IN  IF done.k = "throw" THEN Raise(done.v, trace \o done.trace)
             ELSE ExecEntries(program, node, Tail(entries), Put(result, key, done.v),
                              IF matching # {} /\ case.count THEN count + 1 ELSE count,
                              env, depth, trace \o done.trace)

\* value.map(element => { body })
ExecElements(program, node, elements, results, env, depth, trace) ==
    IF Len(elements) = 0 THEN Return(Arr(results), trace)
    ELSE LET done == Exec(program, node.body, (node.element :> Head(elements)) @@ env, depth)
         IN  IF done.k = "throw" THEN Raise(done.v, trace \o done.trace)
             ELSE ExecElements(program, node, Tail(elements), Append(results, done.v),
                               env, depth, trace \o done.trace)

Exec(program, node, env, depth) ==
    LET value == env[node.value]
    IN  CASE node.k = "call" -> CallFunction(program, node.callee, value, depth)
          [] node.k = "validate" ->
                LET done == CallFunction(program, node.callee, value, depth)
                IN  IF done.k = "throw" THEN done ELSE Return(Undefined, done.trace)
          [] node.k = "anyOf" -> ExecBranches(program, node, 1, <<>>, env, depth, <<>>)
          [] node.k = "typeof" -> ExecTypeof(node, value)
          [] node.k = "date" -> ExecDate(node, value)
          [] node.k = "string" -> ExecString(node, value)
          [] node.k = "object" ->
                IF ObjectGuard(node, value).k = "throw" THEN ObjectGuard(node, value)
                ELSE ExecEntries(program, node, Entries(value), Obj(<<>>), 0, env, depth, <<>>)
          [] node.k = "array" ->
                IF ArrayGuard(node, value).k = "throw" THEN ArrayGuard(node, value)
                ELSE ExecElements(program, node, value.v, <<>>, env, depth, <<>>)

(***************************************************************************)
(* The state machine: a schema document is compiled once, and the emitted  *)
(* validate and parse are then each run on an input value.                 *)
(***************************************************************************)
None == [k |-> "none", v |-> <<>>, trace |-> <<>>]

\* Bounds of the input domains
MaxProps == 2

MaxKeys == 2

RECURSIVE SortedSeq(_)
SortedSeq(S) ==
    IF S = {} THEN <<>>
    ELSE LET m == CHOOSE x \in S : \A y \in S : x <= y
         IN  <<m>> \o SortedSeq(S \ {m})

\* The members of a pool at the indexes S, in the pool's order
Pick(pool, S) == [i \in 1..Cardinality(S) |-> pool[SortedSeq(S)[i]]]

SmallSubsets(n, max) == {S \in SUBSET (1..n) : Cardinality(S) <= max}

TypeOnly(t) == Obj(<< <<"type", Str(t)>> >>)

\* The properties an object schema of the domain declares some of
PropertyPool ==
    << <<"$schema", Obj(<< <<"type", Str("string")>>, <<"pattern", Str("^hi$")>> >>)>>,
       <<"str", TypeOnly("string")>>,
       <<"num", TypeOnly("number")>> >>

ObjectSchema(properties, required, additionalProperties) ==
    Obj(<< <<"type", Str("object")>>, <<"properties", Obj(properties)>> >>
        \o (IF required.k = "undefined" THEN <<>> ELSE << <<"required", required>> >>)
        \o (IF additionalProperties.k = "undefined" THEN <<>>
            ELSE << <<"additionalProperties", additionalProperties>> >>))

\* No `required`, or any list of declared names without repetition (a valid
\* JSON Schema lists a name once), or a list naming an undeclared property
RequiredChoices(properties) ==
    {Undefined}
    \cup {Arr([i \in 1..Cardinality(S) |-> Str(Pick(properties, S)[i][1])]) :
            S \in SUBSET (1..Len(properties))}
    \cup {Arr(<<Str("bool")>>)}

AdditionalPropertiesChoices == {Undefined, Bool(TRUE), Bool(FALSE), TypeOnly("number")}

NestedSchema ==
    ObjectSchema(<< <<"o", ObjectSchema(<< <<"str", TypeOnly("string")>> >>,
                                         Arr(<<Str("str")>>), Bool(FALSE))>> >>,
                 Arr(<<Str("o")>>), Undefined)

ObjectSchemas ==
    {ObjectSchema(Pick(PropertyPool, S), required, additionalProperties) :
        S \in SmallSubsets(Len(PropertyPool), MaxProps),
        required \in UNION {RequiredChoices(Pick(PropertyPool, T)) :
                               T \in SmallSubsets(Len(PropertyPool), MaxProps)},
        additionalProperties \in AdditionalPropertiesChoices}

\* The keys an input object has some of, each with the values it may carry
KeyPool ==
    << <<"$schema", {Str("hi"), Str("no"), Num(0)}>>,
       <<"str", {Str("hi"), Num(0)}>>,
       <<"num", {Str("hi"), Num(0)}>>,
       <<"test", {Str("hi"), Num(0)}>> >>

ObjectsOver(pool, S) ==
    {Obj([i \in 1..Cardinality(S) |-> <<pool[SortedSeq(S)[i]][1], f[SortedSeq(S)[i]]>>]) :
        f \in {g \in [S -> UNION {pool[i][2] : i \in S}] : \A i \in S : g[i] \in pool[i][2]}}

InputObjects == UNION {ObjectsOver(KeyPool, S) : S \in SmallSubsets(Len(KeyPool), MaxKeys)}

Scalars == {Null, Str("hi"), Num(0), Bool(FALSE), DateOf("2021-12-05T00:00:00.000Z")}

NestedInputs ==
    {Obj(<< <<"o", Obj(<< <<"str", Str("hi")>> >>)>> >>),
     Obj(<< <<"o", Obj(<<>>)>> >>),
     Obj(<< <<"o", Arr(<<>>)>> >>),
     Obj(<< <<"o", Obj(<< <<"str", Num(0)>> >>)>> >>),
     Obj(<< <<"o", Obj(<< <<"str", Str("hi")>>, <<"$schema", Str("hi")>> >>)>> >>),
     Arr(<<Str("hi")>>)}

TypeOK ==
    /\ pc \in {"init", "generated", "failed"}
    /\ validated.k \in {"none", "return", "throw"}
    /\ parsed.k \in {"none", "return", "throw"}

Start(schemas, values) ==
    /\ schema \in schemas
    /\ json \in values
    /\ pc = "init"
    /\ references = <<>>
    /\ code = Undefined
    /\ genError = ""
    /\ validated = None
    /\ parsed = None
    /\ declarations = Undefined
    /\ compiled = <<>>
    /\ lastUntitledReferenceCount = 0
    /\ lastUntitledTypeCount = 0
    /\ checked = None
    /\ text = ""
    /\ formatted = Undefined

\* Object schemas (one of them without `properties`) against objects and others
InitObject ==
    Start(ObjectSchemas \cup {NestedSchema, TypeOnly("object")},
          InputObjects \cup Scalars \cup NestedInputs)

\* The registry with the names, or without them when naming threw
namedOr(found, named) == IF IsThrow(named) THEN found.v ELSE named.v

registryFound(found) ==
    IF IsThrow(found) THEN <<>>
    ELSE namedOr(found, assignNames(found.v, 1, untitledReferenceCountAtEntry))

registryOfRoot(root) ==
    IF IsThrow(root) THEN <<>> ELSE registryFound(accumulateReferences(root))

\* The registry as the generator left it, also when a later step threw.
registryOf(input) == registryOfRoot(rootOf(input))

GenerateJavaScriptParser ==
    /\ pc = "init"
    /\ code' = generateJavaScriptParser(schema)
    /\ genError' = IF IsThrow(code') THEN code'.v.kind ELSE ""
    /\ pc' = IF IsThrow(code') THEN "failed" ELSE "generated"
    /\ references' = registryOf(schema)
    /\ lastUntitledReferenceCount' =
          untitledReferencesAfter(references', untitledReferenceCountAtEntry)
    /\ UNCHANGED <<schema, json, validated, parsed, declarations, compiled,
                   lastUntitledTypeCount, checked, text, formatted>>

\* The registry of generateTypeScriptDeclarations when its naming loop ends
declaredFound(found) == IF IsThrow(found) THEN <<>> ELSE found.v

declaredOf(input) == declaredFound(accumulateReferences(input))

GenerateTypeScriptDeclarations ==
    /\ declarations = Undefined
    /\ declarations' = generateTypeScriptDeclarations(schema)
    /\ lastUntitledTypeCount' = untitledTypesAfter(declaredOf(schema), untitledTypeCountAtEntry)
    /\ UNCHANGED <<schema, json, pc, references, code, genError, validated, parsed,
                   compiled, lastUntitledReferenceCount, checked, text, formatted>>

\* validate(json) of the emitted program
Validate ==
    /\ pc = "generated"
    /\ validated = None
    /\ validated' = CallFunction(code, "validate", json, MaxCallDepth)
    /\ UNCHANGED <<schema, json, pc, references, code, genError, parsed,
                   declarations, compiled, lastUntitledReferenceCount, lastUntitledTypeCount,
                   checked, text, formatted>>

\* parse(json) of the emitted program
Parse ==
    /\ pc = "generated"
    /\ parsed = None
    /\ parsed' = CallFunction(code, "parse", json, MaxCallDepth)
    /\ UNCHANGED <<schema, json, pc, references, code, genError, validated,
                   declarations, compiled, lastUntitledReferenceCount, lastUntitledTypeCount,
                   checked, text, formatted>>

Next ==
    \/ GenerateJavaScriptParser
    \/ Validate
    \/ Parse

SpecObject == InitObject /\ [][Next]_vars

\* The two generators, and the emitted validate and parse
NextDeclarations ==
    \/ Next
    \/ GenerateTypeScriptDeclarations

\* A node as the property u of a root object, and a value as that key's value
Under(node) == ObjectSchema(<< <<"u", node>> >>, Undefined, Undefined)

Holding(value) == Obj(<< <<"u", value>> >>)

MaxBranches == 2

\* The schemas a union or an intersection has some of as its branches
BranchPool ==
    << Obj(<< <<"type", Str("string")>>, <<"format", Str("date")>> >>),
       TypeOnly("string"),
       TypeOnly("number"),
       Obj(<< <<"type", Str("string")>>, <<"pattern", Str("^hi$")>> >>),
       ObjectSchema(<< <<"str", TypeOnly("string")>> >>, Arr(<<Str("str")>>), Undefined),
       ObjectSchema(<< <<"num", TypeOnly("number")>> >>, Arr(<<Str("num")>>), Undefined),
       Obj(<< <<"anyOf", Arr(<<TypeOnly("number"), TypeOnly("boolean")>>)>> >>) >>

\* Every list of at most MaxBranches members of the pool, in every order
BranchLists ==
    UNION {{Arr([i \in 1..n |-> BranchPool[f[i]]]) : f \in [1..n -> 1..Len(BranchPool)]} :
              n \in 0..MaxBranches}

UnionSchemas ==
    UNION {{Obj(<< <<"anyOf", branches>> >>), Under(Obj(<< <<"anyOf", branches>> >>))} :
              branches \in BranchLists}

IntersectionSchemas == {Obj(<< <<"allOf", branches>> >>) : branches \in BranchLists}

UnionValues ==
    Scalars \cup {Str("2021-12-05"), Str("no"), Arr(<<>>), Obj(<<>>),
                  Obj(<< <<"str", Str("hi")>> >>), Obj(<< <<"str", Num(0)>> >>),
                  Obj(<< <<"num", Num(0)>> >>),
                  Obj(<< <<"str", Str("hi")>>, <<"num", Num(0)>> >>)}

\* Unions, at the root and under a property, and intersections
InitUnion ==
    Start(UnionSchemas \cup IntersectionSchemas,
          UnionValues \cup {Holding(value) : value \in UnionValues})

SpecUnion == InitUnion /\ [][Next]_vars

RefTo(reference) == Obj(<< <<"$ref", Str(reference)>> >>)

\* The references of the domain: two definitions, a property of each, a
\* definition that refers to another one, and the root
ReferencePool ==
    {"#/$defs/a", "#/$defs/b", "#/$defs/a/properties/item", "#/$defs/b/properties/item",
     "#/$defs/outer", "#"}

Titled(node, title) ==
    IF title.k = "undefined" THEN node ELSE Put(node, "title", title)

\* $defs, with the two definitions untitled or under one title
Definitions(title) ==
    Obj(<< <<"a", Titled(ObjectSchema(<< <<"item", TypeOnly("string")>> >>,
                                      Undefined, Undefined), title)>>,
           <<"b", Titled(ObjectSchema(<< <<"item", TypeOnly("number")>> >>,
                                      Undefined, Undefined), title)>>,
           <<"outer", ObjectSchema(<< <<"q", RefTo("#/$defs/a")>> >>,
                                   Undefined, Undefined)>> >>)

\* The places of a schema document a reference can stand at, below a property
ReferencePlaces(reference) ==
    {RefTo(reference),
     Obj(<< <<"type", Str("array")>>, <<"items", RefTo(reference)>> >>),
     Obj(<< <<"anyOf", Arr(<<RefTo(reference), TypeOnly("number")>>)>> >>),
     Obj(<< <<"allOf", Arr(<<RefTo(reference)>>)>> >>)}

ReferenceSchemas ==
    {Put(ObjectSchema(<< <<"p", p>> >> \o (IF q.k = "undefined" THEN <<>> ELSE << <<"q", q>> >>),
                      Undefined, additionalProperties),
         "$defs", Definitions(title)) :
        p \in {TypeOnly("string")} \cup UNION {ReferencePlaces(r) : r \in ReferencePool},
        q \in {Undefined} \cup {RefTo(r) : r \in ReferencePool},
        additionalProperties \in {Undefined} \cup {RefTo(r) : r \in ReferencePool},
        title \in {Undefined, Str("T")}}

ReferenceValues ==
    {Obj(<< <<"p", Obj(<< <<"item", Str("hi")>> >>)>> >>),
     Obj(<< <<"p", Obj(<< <<"item", Num(0)>> >>)>> >>),
     Obj(<< <<"p", Str("hi")>> >>),
     Obj(<< <<"p", Arr(<<Obj(<< <<"item", Str("hi")>> >>)>>)>> >>),
     Obj(<< <<"p", Obj(<< <<"item", Str("hi")>> >>)>>,
            <<"q", Obj(<< <<"item", Num(0)>> >>)>> >>),
     Obj(<< <<"p", Obj(<< <<"p", Str("hi")>> >>)>> >>),
     Obj(<< <<"x", Num(0)>> >>)}

\* Roots whose properties and additionalProperties refer to definitions
InitReference == Start(ReferenceSchemas, ReferenceValues)

SpecReference == InitReference /\ [][Next]_vars

\* One node of every kind
KindNodes ==
    {TypeOnly("string"), TypeOnly("number"), TypeOnly("boolean"), TypeOnly("object"),
     Obj(<< <<"type", Str("string")>>, <<"pattern", Str("^hi$")>> >>),
     Obj(<< <<"type", Str("string")>>, <<"format", Str("date")>> >>),
     Obj(<< <<"type", Str("string")>>, <<"format", Str("date-time")>> >>),
     Obj(<< <<"type", Str("string")>>, <<"format", Str("email")>> >>),
     ObjectSchema(<<>>, Undefined, Undefined),
     Obj(<< <<"type", Str("array")>>, <<"items", TypeOnly("string")>> >>),
     Obj(<< <<"type", Str("array")>>, <<"items", TypeOnly("number")>> >>)}

\* One value or more of every runtime kind
KindValues ==
    Scalars \cup {Undefined, Bool(TRUE), Str("2021-12-05"), Str("no"),
                  Arr(<<>>), Arr(<<Str("hi")>>), Arr(<<Num(0)>>),
                  Obj(<<>>), Obj(<< <<"str", Str("hi")>> >>)}

\* Nodes of every kind, at the root and under a property, against every kind of value
InitKind ==
    Start(KindNodes \cup {Under(node) : node \in KindNodes},
          KindValues \cup {Holding(value) : value \in KindValues})

SpecKind == InitKind /\ [][Next]_vars

\* String nodes with and without a format and a pattern
StringNodes ==
    {Obj(<< <<"type", Str("string")>> >>
         \o (IF format.k = "undefined" THEN <<>> ELSE << <<"format", format>> >>)
         \o (IF pattern.k = "undefined" THEN <<>> ELSE << <<"pattern", pattern>> >>)) :
        format \in {Undefined, Str("date"), Str("date-time"), Str("email")},
        pattern \in {Undefined, Str("^hi$"), Str("^2021")}}

StringValues ==
    Scalars \cup {Str("2021-12-05"), Str("2021-12-05T10:30:00.000Z"), Str("no"), Str(""),
                  DateOf("2021-12-05T10:30:00.000Z"), Arr(<<Str("hi")>>), Obj(<<>>)}

\* String nodes, at the root and under a property, against strings, dates and others
InitString ==
    Start(StringNodes \cup {Under(node) : node \in StringNodes},
          StringValues \cup {Holding(value) : value \in StringValues})

SpecString == InitString /\ [][Next]_vars

\* References to locations the document does not have: the last segment, the
\* only one, the first or a middle one is missing
MissingPool ==
    {"#/$defs/missing", "#/missing", "#/missing/a", "#/$defs/missing/properties/item",
     "#/$defs/a/properties/missing", "#/$defs/a/missing/item", "#/$defs/a/title/item"}

MissingSchemas ==
    {Put(ObjectSchema(<< <<"p", p>> >>, Undefined, Undefined), "$defs", Definitions(Undefined)) :
        p \in UNION {{RefTo(r), Obj(<< <<"type", Str("array")>>, <<"items", RefTo(r)>> >>)} :
                        r \in MissingPool \cup {"#/$defs/a", "#"}}}

\* Roots with a property that refers to a location that may not exist
InitMissing == Start(MissingSchemas, ReferenceValues)

SpecMissing == InitMissing /\ [][Next]_vars

\* Schemas whose references form cycles: a property that refers to the root, a
\* root that is a reference to itself, a property that refers to an ancestor
\* (through a property, through items), two properties that refer to each
\* other (each being a reference, and one being an object), a definition that
\* refers to itself, two that refer to each other
CycleSchemas ==
    {ObjectSchema(<< <<"p", RefTo("#")>> >>, Undefined, Undefined),
     Titled(ObjectSchema(<< <<"p", RefTo("#")>> >>, Undefined, Bool(FALSE)), Str("Tree")),
     RefTo("#"),
     ObjectSchema(<< <<"p", ObjectSchema(<< <<"child", RefTo("#/properties/p")>> >>,
                                         Undefined, Undefined)>> >>, Undefined, Undefined),
     ObjectSchema(<< <<"p", Obj(<< <<"type", Str("array")>>,
                                   <<"items", RefTo("#/properties/p")>> >>)>> >>,
                  Undefined, Undefined),
     ObjectSchema(<< <<"p", RefTo("#/properties/q")>>, <<"q", RefTo("#/properties/p")>> >>,
                  Undefined, Undefined),
     ObjectSchema(<< <<"p", RefTo("#/properties/q")>>,
                     <<"q", ObjectSchema(<< <<"back", RefTo("#/properties/p")>> >>,
                                         Undefined, Undefined)>> >>, Undefined, Undefined),
     Put(ObjectSchema(<< <<"p", RefTo("#/$defs/node")>> >>, Undefined, Undefined), "$defs",
         Obj(<< <<"node", ObjectSchema(<< <<"next", RefTo("#/$defs/node")>> >>,
                                       Undefined, Undefined)>> >>)),
     Put(ObjectSchema(<< <<"p", RefTo("#/$defs/node")>> >>, Undefined, Undefined), "$defs",
         Obj(<< <<"node", ObjectSchema(<< <<"next", RefTo("#/$defs/other")>> >>,
                                       Undefined, Undefined)>>,
                <<"other", ObjectSchema(<< <<"back", RefTo("#/$defs/node")>> >>,
                                        Undefined, Undefined)>> >>))}

\* Chains of objects under one key, n deep
RECURSIVE Chain(_, _, _)
Chain(first, key, n) ==
    IF n = 0 THEN Obj(<<>>) ELSE Obj(<< <<first, Chain(key, key, n - 1)>> >>)

CycleValues ==
    {Chain("p", key, n) : key \in {"p", "child", "next", "back"}, n \in 0..3}
    \cup {Obj(<< <<"p", Str("hi")>> >>), Obj(<< <<"p", Arr(<<Arr(<<>>), Arr(<<Arr(<<>>)>>)>>)>> >>),
          Obj(<< <<"p", Obj(<< <<"p", Num(0)>> >>)>> >>), Str("hi")}

InitCycle == Start(CycleSchemas, CycleValues)

SpecCycle == InitCycle /\ [][Next]_vars

ArrayOf(items) == Obj(<< <<"type", Str("array")>>, <<"items", items>> >>)

\* The places of a document a node can stand at: the root, a property, the
\* items of an array, a branch of a union or of an intersection (alone, and
\* before a branch of another type), additionalProperties, a definition that a
\* property refers to, a definition that nothing refers to
PlacesOf(node) ==
    {node,
     ObjectSchema(<< <<"p", node>> >>, Undefined, Undefined),
     ArrayOf(node),
     ObjectSchema(<< <<"p", ArrayOf(node)>> >>, Undefined, Undefined),
     ObjectSchema(<< <<"p", Obj(<< <<"anyOf", Arr(<<TypeOnly("number"), node>>)>> >>)>> >>,
                  Undefined, Undefined),
     ObjectSchema(<< <<"p", Obj(<< <<"allOf", Arr(<<node>>)>> >>)>> >>, Undefined, Undefined),
     ObjectSchema(<< <<"p", Obj(<< <<"allOf", Arr(<<node, TypeOnly("string")>>)>> >>)>> >>,
                  Undefined, Undefined),
     ObjectSchema(<<>>, Undefined, node),
     Put(ObjectSchema(<< <<"p", RefTo("#/$defs/t")>> >>, Undefined, Undefined),
         "$defs", Obj(<< <<"t", node>> >>)),
     Put(ObjectSchema(<< <<"p", TypeOnly("number")>> >>, Undefined, Undefined),
         "$defs", Obj(<< <<"t", node>> >>))}

\* Arrays with and without `items` at every place, under a titled or untitled root
ItemsSchemas ==
    {Titled(place, title) :
        place \in PlacesOf(TypeOnly("array")) \cup PlacesOf(ArrayOf(TypeOnly("string"))),
        title \in {Undefined, Str("Root")}}

ItemsValues ==
    {Arr(<<Str("hi")>>), Arr(<<Arr(<<Str("hi")>>)>>), Obj(<< <<"p", Arr(<<Str("hi")>>)>> >>),
     Obj(<< <<"p", Num(0)>> >>), Obj(<< <<"x", Arr(<<>>)>> >>)}

InitItems == Start(ItemsSchemas, ItemsValues)

SpecItems == InitItems /\ [][NextDeclarations]_vars

\* Schemas taken up after the first one of a process
MaxCompilations == 2

\* Schemas with and without references that get a generated name: a property
\* that refers to the untitled root; an untitled definition and the untitled
\* root, both referred to; a titled root without references
ProcessSchemas ==
    {ObjectSchema(<< <<"p", RefTo("#")>> >>, Undefined, Undefined),
     Put(ObjectSchema(<< <<"p", RefTo("#/$defs/t")>>, <<"q", RefTo("#")>> >>,
                      Undefined, Undefined),
         "$defs", Obj(<< <<"t", ObjectSchema(<<>>, Undefined, Undefined)>> >>)),
     Titled(ObjectSchema(<< <<"p", TypeOnly("string")>> >>, Undefined, Undefined),
            Str("Root"))}

ProcessValues == {Obj(<<>>), Obj(<< <<"p", Obj(<<>>)>> >>)}

InitProcess == Start(ProcessSchemas, ProcessValues)

\* The process keeps the outputs of both generators and goes on to another schema
NextSchema ==
    /\ pc # "init"
    /\ declarations # Undefined
    /\ Len(compiled) < MaxCompilations
    /\ compiled' = Append(compiled, [schema |-> schema, code |-> code,
                                     declarations |-> declarations])
    /\ schema' \in ProcessSchemas
    /\ pc' = "init"
    /\ references' = <<>>
    /\ code' = Undefined
    /\ genError' = ""
    /\ validated' = None
    /\ parsed' = None
    /\ declarations' = Undefined
    /\ UNCHANGED <<json, lastUntitledReferenceCount, lastUntitledTypeCount,
                   checked, text, formatted>>

NextProcess ==
    \/ NextDeclarations
    \/ NextSchema

SpecProcess == InitProcess /\ [][NextProcess]_vars

\* The kinds of node a reference or a title can name: an object, an array, a
\* scalar, a union, an intersection
TargetKinds ==
    {ObjectSchema(<< <<"x", TypeOnly("number")>> >>, Undefined, Undefined),
     ArrayOf(TypeOnly("string")),
     TypeOnly("string"),
     Obj(<< <<"anyOf", Arr(<<TypeOnly("string"), TypeOnly("number")>>)>> >>),
     Obj(<< <<"allOf", Arr(<<ObjectSchema(<< <<"x", TypeOnly("number")>> >>,
                                          Undefined, Undefined),
                             ObjectSchema(<< <<"y", TypeOnly("string")>> >>,
                                          Undefined, Undefined)>>)>> >>)}

\* A root, titled or not, with one property and one definition: the property
\* refers to the definition, is a titled node of the same kind, is a number,
\* or refers to the root; the definition is titled or not
DeclarationSchemas ==
    {Titled(Put(ObjectSchema(<< <<"p", property>> >>, Undefined, Undefined),
                "$defs", Obj(<< <<"t", Titled(target, title)>> >>)),
            rootTitle) :
        target \in TargetKinds,
        title \in {Undefined, Str("T")},
        rootTitle \in {Undefined, Str("Root")},
        property \in {RefTo("#/$defs/t"), TypeOnly("number"), RefTo("#")}}
    \cup
    {Titled(ObjectSchema(<< <<"p", Titled(target, Str("Inline"))>> >>, Undefined, Undefined),
            rootTitle) :
        target \in TargetKinds, rootTitle \in {Undefined, Str("Root")}}

DeclarationValues == {Obj(<<>>), Obj(<< <<"p", Num(0)>> >>)}

InitDeclarations == Start(DeclarationSchemas, DeclarationValues)

SpecDeclarations == InitDeclarations /\ [][NextDeclarations]_vars

\* A closed object node: the property x, and no others
Closed == ObjectSchema(<< <<"x", TypeOnly("string")>> >>, Undefined, Bool(FALSE))

\* Closed roots that declare no $schema, with an object below the property p:
\* the root again through a reference (directly, and as the items of an array),
\* an inline node, a definition through a reference
InnerSchemas ==
    {Titled(root, title) :
        root \in {ObjectSchema(<< <<"p", RefTo("#")>> >>, Undefined, Bool(FALSE)),
                  ObjectSchema(<< <<"p", ArrayOf(RefTo("#"))>> >>, Undefined, Bool(FALSE)),
                  ObjectSchema(<< <<"p", Closed>> >>, Undefined, Bool(FALSE)),
                  ObjectSchema(<< <<"p", ArrayOf(Closed)>> >>, Undefined, Bool(FALSE)),
                  Put(ObjectSchema(<< <<"p", RefTo("#/$defs/t")>> >>, Undefined, Bool(FALSE)),
                      "$defs", Obj(<< <<"t", Closed>> >>))},
        title \in {Undefined, Str("Tree")}}

\* Objects with and without a $schema key, at the top and below p
InnerValues ==
    LET inner == {Obj(<<>>), Obj(<< <<"$schema", Str("hi")>> >>),
                  Obj(<< <<"x", Str("hi")>> >>),
                  Obj(<< <<"x", Str("hi")>>, <<"$schema", Str("hi")>> >>),
                  Obj(<< <<"p", Obj(<< <<"$schema", Str("hi")>> >>)>> >>)}
    IN  {Obj(<<>>), Obj(<< <<"$schema", Str("hi")>> >>)}
        \cup {Obj(<< <<"p", value>> >>) : value \in inner}
        \cup {Obj(<< <<"$schema", Str("hi")>>, <<"p", value>> >>) : value \in inner}
        \cup {Obj(<< <<"p", Arr(<<value>>)>> >>) : value \in inner}

InitInner == Start(InnerSchemas, InnerValues)

SpecInner == InitInner /\ [][Next]_vars

\* What the items of an array can be: one type, or several alternatives
ElementKinds ==
    {TypeOnly("string"), TypeOnly("number"),
     Obj(<< <<"anyOf", Arr(<<TypeOnly("string"), TypeOnly("number")>>)>> >>),
     Obj(<< <<"anyOf", Arr(<<TypeOnly("string")>>)>> >>),
     Obj(<< <<"allOf", Arr(<<ObjectSchema(<< <<"x", TypeOnly("number")>> >>,
                                          Undefined, Undefined),
                             ObjectSchema(<< <<"y", TypeOnly("string")>> >>,
                                          Undefined, Undefined)>>)>> >>),
     Obj(<< <<"type", Str("string")>>, <<"pattern", Str("^(a|b)$")>> >>),
     Obj(<< <<"type", Str("string")>>, <<"pattern", Str("^(a)$")>> >>),
     ObjectSchema(<< <<"x", TypeOnly("number")>> >>, Undefined, Undefined),
     ArrayOf(TypeOnly("string")),
     ArrayOf(Obj(<< <<"anyOf", Arr(<<TypeOnly("string"), TypeOnly("number")>>)>> >>))}

\* A titled array at the root, and a titled object with an array property
ArraySchemas ==
    {Titled(ArrayOf(items), Str("Root")) : items \in ElementKinds}
    \cup {Titled(ObjectSchema(<< <<"p", ArrayOf(items)>> >>, Undefined, Undefined), Str("Root")) :
            items \in ElementKinds}

ArrayValues ==
    {Arr(<<>>), Arr(<<Str("a")>>), Arr(<<Num(0)>>), Obj(<< <<"p", Arr(<<Str("a"), Num(0)>>)>> >>)}

InitArray == Start(ArraySchemas, ArrayValues)

SpecArray == InitArray /\ [][NextDeclarations]_vars

\* The lines of a text at most
MaxLines == 3

\* Lines with and without braces at their ends, with and without blanks
LinePool ==
    {"", "a", "{", "}", "} else {", "  a {", "\t}", " { ", "}  "}

\* Texts of lines that end with \n or with \r\n
FormatTexts ==
    UNION {{Join(lines, end) : lines \in [1..n -> LinePool], end \in {"\n", "\r\n"}} :
              n \in 1..MaxLines}

InitFormat ==
    /\ schema = TypeOnly("string")
    /\ json = Str("hi")
    /\ pc = "init"
    /\ references = <<>>
    /\ code = Undefined
    /\ genError = ""
    /\ validated = None
    /\ parsed = None
    /\ declarations = Undefined
    /\ compiled = <<>>
    /\ lastUntitledReferenceCount = 0
    /\ lastUntitledTypeCount = 0
    /\ checked = None
    /\ text \in FormatTexts
    /\ formatted = Undefined

\* format(text) and format(text, tabSize)
Format ==
    /\ formatted = Undefined
    /\ \E tabSize \in {defaultTabSize, 2} :
          formatted' = [k |-> "string", v |-> formatCode(text, tabSize), tabSize |-> tabSize]
    /\ UNCHANGED <<schema, json, pc, references, code, genError, validated, parsed,
                   declarations, compiled, lastUntitledReferenceCount, lastUntitledTypeCount,
                   checked, text>>

NextFormat == Format

SpecFormat == InitFormat /\ [][NextFormat]_vars

(***************************************************************************)
(* metaschema.ts: the schema of the supported subset of JSON Schema        *)
(***************************************************************************)
Described(description, node) == Obj(<< <<"description", Str(description)>> >> \o node.v)

\* The descriptions are written with ' where the source has a backquote
JSONSchemaSchema ==
    Obj(<<
      <<"title", Str("JSON Schema")>>,
      <<"description", Str("This interface represents all of the JSON Schema functionality that is supported by this module.")>>,
      <<"$defs", Obj(<<
          <<"definitions", Obj(<<
              <<"title", Str("JSON Schema Definitions")>>,
              <<"type", Str("object")>>,
              <<"additionalProperties", RefTo("#")>> >>)>> >>)>>,
      <<"type", Str("object")>>,
      <<"properties", Obj(<<
          <<"title", Described("Note: this property is used to generate the name of the type used in TypeScript declarations.",
                               TypeOnly("string"))>>,
          <<"description", Described("Note: this property is added as JSDoc comments in TypeScript declarations.",
                                     TypeOnly("string"))>>,
          <<"$schema", TypeOnly("string")>>,
          <<"$comment", TypeOnly("string")>>,
          <<"$ref", Described("Use this to refer to another point in this schema. Example format: '#/$defs/customSubschema'.",
                              Obj(<< <<"type", Str("string")>>,
                                     <<"pattern", Str(internalReferencePatternSource)>> >>))>>,
          <<"$defs", Described("By convention, subschema are defined here and referenced elsewhere.",
                               RefTo("#/$defs/definitions"))>>,
          <<"definitions", Described("This is the old name for '$defs' (allowed here for compatibility).",
                                     RefTo("#/$defs/definitions"))>>,
          <<"type", Obj(<< <<"type", Str("string")>>,
                           <<"pattern", Str("^(string|number|boolean|object|array)$")>> >>)>>,
          <<"pattern", Described("Regular expression used for validating string types.",
                                 TypeOnly("string"))>>,
          <<"format", Described("String indicating the format of a string type. The \"date\" and \"date-time\" formats have special handling: when validating, Date objects are tolerated; when parsing, the string is converted to a Date object.",
                                TypeOnly("string"))>>,
          <<"properties", Described("Defines properties allowed on objects.",
                                    Obj(<< <<"type", Str("object")>>,
                                           <<"additionalProperties", RefTo("#")>> >>))>>,
          <<"required", Described("Indicates which properties from 'properties' are required on objects.",
                                  ArrayOf(TypeOnly("string")))>>,
          <<"additionalProperties",
            Described("By default, extra properties (beyond what's specified in 'properties') of any type are allowed. Set to false to disallow extra properties. Set to a specific type to type check extra properties.",
                      Obj(<< <<"anyOf", Arr(<<TypeOnly("boolean"), RefTo("#")>>)>> >>))>>,
          <<"items", Described("Defines the schema for array elements.", RefTo("#"))>>,
          <<"anyOf", ArrayOf(RefTo("#"))>>,
          <<"allOf", ArrayOf(RefTo("#"))>> >>)>>,
      <<"additionalProperties", Bool(FALSE)>> >>)

\* ({ other: "ha", ...s }) of a copy of the document
WithOther(s) == Obj(<< <<"other", Str("ha")>> >> \o s.v)

\* For each key the metaschema declares: a value of the declared kind, and a
\* value of another kind
KeySamples ==
    << <<"title", Str("T"), Num(0)>>,
       <<"description", Str("hi"), Bool(TRUE)>>,
       <<"$schema", Str("hi"), Num(0)>>,
       <<"$comment", Str("hi"), Null>>,
       <<"$ref", Str("#/$defs/a"), Str("a")>>,
       <<"$defs", Obj(<< <<"a", TypeOnly("string")>> >>), Arr(<<>>)>>,
       <<"definitions", Obj(<< <<"a", TypeOnly("string")>> >>), Str("a")>>,
       <<"type", Str("string"), Str("integer")>>,
       <<"pattern", Str("^hi$"), Num(0)>>,
       <<"format", Str("date"), Num(0)>>,
       <<"properties", Obj(<< <<"p", TypeOnly("number")>> >>), Arr(<<>>)>>,
       <<"required", Arr(<<Str("p")>>), Arr(<<Num(0)>>)>>,
       <<"additionalProperties", Bool(FALSE), Str("no")>>,
       <<"items", TypeOnly("string"), Str("string")>>,
       <<"anyOf", Arr(<<TypeOnly("string"), TypeOnly("number")>>), Obj(<<>>)>>,
       <<"allOf", Arr(<<TypeOnly("object")>>), Arr(<<Num(0)>>)>> >>

\* The metaschema document, the copy with one more key, and nodes of one key
MetaValues ==
    {JSONSchemaSchema, WithOther(JSONSchemaSchema)}
    \cup {Obj(<< <<KeySamples[i][1], KeySamples[i][2]>> >>) : i \in 1..Len(KeySamples)}
    \cup {Obj(<< <<KeySamples[i][1], KeySamples[i][3]>> >>) : i \in 1..Len(KeySamples)}
    \cup {Obj(<< <<"additionalProperties", TypeOnly("number")>> >>),
          Obj(<< <<"other", Str("ha")>> >>), Obj(<< <<"minimum", Num(0)>> >>),
          Obj(<<>>), Null, Arr(<<>>), Str("hi")}

InitMeta == Start({JSONSchemaSchema}, MetaValues)

(***************************************************************************)
(* json-schema.validate.js: the validator of schema documents that is kept *)
(* in the repository and run on a schema before code is generated from it  *)
(***************************************************************************)
\* throw `JSON validation error at ${at}: expected ${expected}, but encountered ${found}`
ExpectedBut(at, expected, found) ==
    Raise(Str("JSON validation error at " \o at \o ": expected " \o expected
              \o ", but encountered " \o found), <<>>)

\* The function ends without a value
Done == Return(Undefined, <<>>)

\* if (typeof (x) !== "string") { throw ... }
ExpectString(at, x) ==
    IF typeof(x) # "string" THEN ExpectedBut(at, "string", typeof(x)) ELSE Done

\* if (!(/pattern/.test(x))) { throw ... }
ExpectMatch(at, pattern, x) ==
    IF ~RegExpTest(pattern, x.v)
    THEN Raise(Str("JSON validation error at " \o at \o ": string did not match pattern /"
                   \o pattern \o "/: " \o x.v), <<>>)
    ELSE Done

\* if (typeof (x) !== "object") { throw ... } else if (Array.isArray(x)) { throw ... }
\* and then Object.entries(x), which throws for null
ExpectObject(at, x) ==
    IF typeof(x) # "object" THEN ExpectedBut(at, "object", typeof(x))
    ELSE IF x.k = "array" THEN ExpectedBut(at, "object", "an array")
    ELSE IF x.k = "null"
    THEN Raise([k |-> "TypeError", v |-> "Cannot convert undefined or null to object"], <<>>)
    ELSE Done

\* if (typeof (x) !== "object" || !Array.isArray(x)) { throw ... }
ExpectArray(at, x) ==
    IF typeof(x) # "object" \/ x.k # "array" THEN ExpectedBut(at, "array", typeof(x))
    ELSE Done

RECURSIVE validateJSONSchema(_)
RECURSIVE validateJSONSchemaDefinitions(_)
RECURSIVE validateJSONSchemaEach(_, _)
RECURSIVE validateJSONSchemaCase(_, _)
RECURSIVE validateJSONSchemaEntries(_, _)

\* for (const x of values) { validateJSONSchema(x); }
validateJSONSchemaEach(values, i) ==
    IF i > Len(values) THEN Done
    ELSE IF IsThrow(validateJSONSchema(values[i])) THEN validateJSONSchema(values[i])
    ELSE validateJSONSchemaEach(values, i + 1)

RECURSIVE ExpectStrings(_, _, _)
\* for (const x of values) { if (typeof (x) !== "string") { throw ... } }
ExpectStrings(at, values, i) ==
    IF i > Len(values) THEN Done
    ELSE IF IsThrow(ExpectString(at, values[i])) THEN ExpectString(at, values[i])
    ELSE ExpectStrings(at, values, i + 1)

\* The values of Object.entries(o)
EntryValues(o) == [i \in 1..Len(Entries(o)) |-> Entries(o)[i][2]]

\* function validateJSONSchemaDefinitions(json)
validateJSONSchemaDefinitions(value) ==
    IF IsThrow(ExpectObject("$defs.definitions", value))
    THEN ExpectObject("$defs.definitions", value)
    ELSE validateJSONSchemaEach(EntryValues(value), 1)

\* switch (jsonKey) of validateJSONSchema
validateJSONSchemaCase(jsonKey, jsonValue) ==
    CASE jsonKey \in {"title", "description", "$schema", "$comment", "pattern"} ->
            ExpectString(jsonKey, jsonValue)
      [] jsonKey = "$ref" ->
            IF IsThrow(ExpectString(jsonKey, jsonValue)) THEN ExpectString(jsonKey, jsonValue)
            ELSE ExpectMatch(jsonKey, "^#(\\/[$a-zA-Z0-9]+)*$", jsonValue)
      [] jsonKey \in {"$defs", "definitions"} -> validateJSONSchemaDefinitions(jsonValue)
      [] jsonKey = "type" ->
            IF IsThrow(ExpectString(jsonKey, jsonValue)) THEN ExpectString(jsonKey, jsonValue)
            ELSE ExpectMatch(jsonKey, "^(string|number|boolean|object|array)$", jsonValue)
      [] jsonKey = "properties" ->
            IF IsThrow(ExpectObject(jsonKey, jsonValue)) THEN ExpectObject(jsonKey, jsonValue)
            ELSE validateJSONSchemaEach(EntryValues(jsonValue), 1)
      [] jsonKey = "required" ->
            IF IsThrow(ExpectArray(jsonKey, jsonValue)) THEN ExpectArray(jsonKey, jsonValue)
            ELSE ExpectStrings("required.items", jsonValue.v, 1)
      [] jsonKey = "additionalProperties" ->
            IF typeof(jsonValue) # "boolean" /\ IsThrow(validateJSONSchema(jsonValue))
            THEN Raise(Str("JSON validation error at additionalProperties: failed to match any of the specified types"), <<>>)
            ELSE Done
      [] jsonKey = "items" -> validateJSONSchema(jsonValue)
      [] jsonKey \in {"anyOf", "allOf"} ->
            IF IsThrow(ExpectArray(jsonKey, jsonValue)) THEN ExpectArray(jsonKey, jsonValue)
            ELSE validateJSONSchemaEach(jsonValue.v, 1)
      [] OTHER ->
            Raise(Str("JSON validation error at root: encountered unexpected property: "
                      \o jsonKey), <<>>)

\* for (const [jsonKey, jsonValue] of Object.entries(json)) of validateJSONSchema
validateJSONSchemaEntries(entries, i) ==
    IF i > Len(entries) THEN Done
    ELSE IF IsThrow(validateJSONSchemaCase(entries[i][1], entries[i][2]))
    THEN validateJSONSchemaCase(entries[i][1], entries[i][2])
    ELSE validateJSONSchemaEntries(entries, i + 1)

\* function validateJSONSchema(json)
validateJSONSchema(value) ==
    IF IsThrow(ExpectObject("root", value)) THEN ExpectObject("root", value)
    ELSE validateJSONSchemaEntries(Entries(value), 1)

\* export function validate(json) of json-schema.validate.js
validateSchemaInternal(value) == validateJSONSchema(value)

\* validateSchemaInternal(json): the kept validator run on the document
ValidateSchema ==
    /\ checked = None
    /\ checked' = validateSchemaInternal(json)
    /\ UNCHANGED <<schema, json, pc, references, code, genError, validated, parsed,
                   declarations, compiled, lastUntitledReferenceCount, lastUntitledTypeCount,
                   text, formatted>>

\* The validator generated from the metaschema and the kept validator
NextMeta ==
    \/ Next
    \/ ValidateSchema

SpecMeta == InitMeta /\ [][NextMeta]_vars

(***************************************************************************)
(* What the schema language means, stated apart from the generator: the    *)
(* claims below compare the emitted program with it.                       *)
(***************************************************************************)
\* The node a reference string denotes
Resolve(root, reference) ==
    IF reference = "#" THEN root
    ELSE evaluatePath(root, Split(SubSeq(reference, 3, Len(reference)), "/"))

IsObjectValue(value) == value.k = "object"

Declares(node, key) == HasKey(Get(node, "properties"), key)

RequiredNames(node) ==
    IF Get(node, "required").k = "array"
    THEN {Get(node, "required").v[i].v : i \in 1..Len(Get(node, "required").v)}
    ELSE {}

RECURSIVE Satisfies(_, _, _, _)
\* value is an instance of node; fuel bounds the references followed
Satisfies(root, node, value, fuel) ==
    LET type == Get(node, "type")
        additionalProperties == Get(node, "additionalProperties")
    IN
    IF HasKey(node, "$ref")
    THEN fuel > 0 /\ Satisfies(root, Resolve(root, Get(node, "$ref").v), value, fuel - 1)
    ELSE IF HasKey(node, "anyOf")
    THEN \E i \in 1..Len(Get(node, "anyOf").v) :
            Satisfies(root, Get(node, "anyOf").v[i], value, fuel)
    ELSE IF HasKey(node, "allOf")
    THEN \A i \in 1..Len(Get(node, "allOf").v) :
            Satisfies(root, Get(node, "allOf").v[i], value, fuel)
    ELSE CASE type.v \in {"number", "boolean"} -> value.k = type.v
           [] type.v = "string" ->
                IF HasKey(node, "format") /\ Get(node, "format").v \in {"date", "date-time"}
                THEN value.k \in {"string", "Date"}
                ELSE /\ value.k = "string"
                     /\ HasKey(node, "pattern") => RegExpTest(Get(node, "pattern").v, value.v)
           [] type.v = "object" ->
                /\ IsObjectValue(value)
                /\ \A name \in RequiredNames(node) : HasKey(value, name)
                /\ \A i \in 1..Len(value.v) :
                      LET key == value.v[i][1]
                          item == value.v[i][2]
                      IN  IF Declares(node, key)
                          THEN Satisfies(root, Get(Get(node, "properties"), key), item, fuel)
                          ELSE CASE IsBool(additionalProperties, FALSE) -> FALSE
                                 [] additionalProperties.k = "object" ->
                                        Satisfies(root, additionalProperties, item, fuel)
                                 [] OTHER -> TRUE
           [] type.v = "array" ->
                /\ value.k = "array"
                /\ \A i \in 1..Len(value.v) :
                      Satisfies(root, Get(node, "items"), value.v[i], fuel)

Conforms(node, value) == Satisfies(node, node, value, MaxCallDepth)

RECURSIVE RequiredDeclared(_)
\* Every object node lists in `required` only names it declares
RequiredDeclared(node) ==
    /\ node.k = "object"
    /\ \A name \in RequiredNames(node) : Declares(node, name)
    /\ \A i \in 1..Len(Entries(Get(node, "properties"))) :
          RequiredDeclared(Entries(Get(node, "properties"))[i][2])
    /\ Get(node, "items").k = "object" => RequiredDeclared(Get(node, "items"))
    /\ Get(node, "additionalProperties").k = "object"
          => RequiredDeclared(Get(node, "additionalProperties"))

IsObjectSchema(node) == IsStr(Get(node, "type"), "object")

\* The root with the $schema string property it tolerates when it declares none
Tolerant(node) ==
    IF Declares(node, "$schema") THEN node
    ELSE Put(node, "properties",
             Put(Get(node, "properties"), "$schema", TypeOnly("string")))

Accepted == validated.k = "return"

Rejected == validated.k = "throw"

AcceptedBy(program, value) ==
    CallFunction(program, "validate", value, MaxCallDepth).k = "return"

\* C1: an object schema whose required names are all declared accepts an object
\* exactly when every required name is among its keys, every declared key's
\* value satisfies its property schema and every other key passes the
\* additionalProperties rule; an object missing a required name is rejected.
C1_ObjectAcceptance ==
    (/\ pc = "generated" /\ validated.k # "none"
     /\ IsObjectSchema(schema) /\ RequiredDeclared(schema)
     /\ IsObjectValue(json))
    => /\ Accepted <=> Conforms(Tolerant(schema), json)
       /\ (\E name \in RequiredNames(schema) : ~HasKey(json, name)) => Rejected

\* An object that lacks nothing but a required name has been validated.
C1_Witness ==
    /\ pc = "generated" /\ Rejected
    /\ IsObjectSchema(schema) /\ RequiredDeclared(schema) /\ IsObjectValue(json)
    /\ \E name \in RequiredNames(schema) : ~HasKey(json, name)
    /\ Len(json.v) > 0
    /\ Conforms(Put(Tolerant(schema), "required", Arr(<<>>)), json)

RECURSIVE DeepEqual(_, _)
\* Same kind and same content: same elements in order, same keys with equal values
DeepEqual(a, b) ==
    /\ a.k = b.k
    /\ CASE a.k = "array" ->
              /\ Len(a.v) = Len(b.v)
              /\ \A i \in 1..Len(a.v) : DeepEqual(a.v[i], b.v[i])
         [] a.k = "object" ->
              /\ {a.v[i][1] : i \in 1..Len(a.v)} = {b.v[i][1] : i \in 1..Len(b.v)}
              /\ \A i \in 1..Len(a.v) : DeepEqual(a.v[i][2], Get(b, a.v[i][1]))
         [] OTHER -> a.v = b.v

RECURSIVE HasDateFormat(_)
HasDateFormat(node) ==
    /\ node.k \in {"object", "array"}
    /\ \/ /\ node.k = "object"
          /\ IsStr(Get(node, "type"), "string")
          /\ Get(node, "format").k = "string"
          /\ Get(node, "format").v \in {"date", "date-time"}
       \/ \E i \in 1..Len(node.v) :
             HasDateFormat(IF node.k = "object" THEN node.v[i][2] ELSE node.v[i])

RECURSIVE IsJSON(_)
\* A value as JSON.parse returns them: no Date, no undefined
IsJSON(value) ==
    CASE value.k \in {"null", "string", "number", "boolean"} -> TRUE
      [] value.k = "array" -> \A i \in 1..Len(value.v) : IsJSON(value.v[i])
      [] value.k = "object" -> \A i \in 1..Len(value.v) : IsJSON(value.v[i][2])
      [] OTHER -> FALSE

\* C2: with no date or date-time string node in the schema, parse(v) of every
\* accepted JSON value v returns a value deep-equal to v, extra allowed keys
\* included.
C2_ParseReturnsInput ==
    (/\ pc = "generated" /\ Accepted /\ parsed.k # "none"
     /\ ~HasDateFormat(schema) /\ IsJSON(json))
    => parsed.k = "return" /\ DeepEqual(parsed.v, json)

DeclaredPart(node, value) ==
    Obj(SelectSeq(value.v, LAMBDA e : Declares(Tolerant(node), e[1])))

ExtraKeys(node, value) ==
    {value.v[i][1] : i \in {j \in 1..Len(value.v) : ~Declares(Tolerant(node), value.v[j][1])}}

\* C9: the keys of the value decide: of an object whose declared part is
\* accepted, additionalProperties false accepts it only without an undeclared
\* key, a schema only if every undeclared key's value satisfies that schema,
\* and absent or true always.
C9_AdditionalProperties ==
    (/\ pc = "generated" /\ validated.k # "none"
     /\ IsObjectSchema(schema) /\ IsObjectValue(json)
     /\ AcceptedBy(code, DeclaredPart(schema, json)))
    => LET additionalProperties == Get(schema, "additionalProperties")
       IN  CASE IsBool(additionalProperties, FALSE) ->
                    Accepted <=> ExtraKeys(schema, json) = {}
             [] additionalProperties.k = "object" ->
                    Accepted <=> \A key \in ExtraKeys(schema, json) :
                                    Conforms(additionalProperties, Get(json, key))
             [] OTHER -> Accepted

\* An undeclared key has been rejected by an additionalProperties schema.
C9_Witness ==
    /\ pc = "generated" /\ Rejected
    /\ IsObjectSchema(schema) /\ IsObjectValue(json)
    /\ AcceptedBy(code, DeclaredPart(schema, json))
    /\ Len(DeclaredPart(schema, json).v) > 0
    /\ ExtraKeys(schema, json) # {}
    /\ Get(schema, "additionalProperties").k = "object"

\* The node a claim is about, its place and the value that reaches it: the
\* root, or the property u of the root with a value that has the key u alone
Nested == IsObjectSchema(schema) /\ Declares(schema, "u")

FocusNode == IF Nested THEN Get(Get(schema, "properties"), "u") ELSE schema

FocusPath == IF Nested THEN <<"u">> ELSE <<>>

InFocus == Nested => json.k = "object" /\ Keys(json) = <<"u">>

FocusValue == IF Nested THEN Get(json, "u") ELSE json

FocusResult == IF Nested THEN Get(parsed.v, "u") ELSE parsed.v

BranchesOf(node, key) == IF Get(node, key).k = "array" THEN Get(node, key).v ELSE <<>>

\* C3: the code of an allOf node accepts a value only if the value satisfies
\* every branch of the allOf taken on its own.
C3_IntersectionEveryBranch ==
    (/\ pc = "generated" /\ Accepted /\ HasKey(schema, "allOf"))
    => \A i \in 1..Len(BranchesOf(schema, "allOf")) :
          Conforms(BranchesOf(schema, "allOf")[i], json)

\* The code of branch i of the union in focus, alone, run on a value
BranchAlone(i, value) ==
    Exec(code,
         generateRecursive(references, BranchesOf(FocusNode, "anyOf")[i], <<"json">>,
                           FocusPath \o <<"anyOf">>, FALSE),
         ("json" :> value), MaxCallDepth)

IsUnionCase == pc = "generated" /\ HasKey(FocusNode, "anyOf") /\ InFocus

BranchAccepts(i) == Conforms(BranchesOf(FocusNode, "anyOf")[i], FocusValue)

\* C4: an anyOf node of N branches accepts a value exactly when a branch
\* accepts it; when none does, one failure is raised, whose message names the
\* place of the union and then gives the N branches' failure messages in the
\* order of the branches.
C4_UnionAcceptance ==
    (IsUnionCase /\ validated.k # "none")
    => LET N == Len(BranchesOf(FocusNode, "anyOf"))
       IN  /\ Accepted <=> \E i \in 1..N : BranchAccepts(i)
           /\ Rejected =>
                 validated.v =
                     Str(errorHeaderOf(FocusPath)
                           \o " failed to match any of the specified types: "
                           \o Join([i \in 1..N |-> BranchAlone(i, FocusValue).v.v], "\n\n"))

\* A union of two branches has rejected a value with the two branches' messages.
C4_Witness ==
    /\ IsUnionCase /\ Rejected
    /\ Len(BranchesOf(FocusNode, "anyOf")) = 2
    /\ BranchAlone(1, FocusValue).k = "throw" /\ BranchAlone(2, FocusValue).k = "throw"
    /\ BranchAlone(1, FocusValue).v # BranchAlone(2, FocusValue).v

\* The branches of the union in focus that parse has tried, in the order tried
BranchesTried ==
    LET own == SelectSeq(parsed.trace, LAMBDA e : e.at = errorHeaderOf(FocusPath))
    IN  [i \in 1..Len(own) |-> own[i].branch]

\* C5: parse tries the branches of an anyOf in the declared order, returns the
\* result of the first branch that succeeds and evaluates no branch after it.
C5_UnionFirstMatch ==
    (IsUnionCase /\ parsed.k = "return")
    => \E first \in 1..Len(BranchesOf(FocusNode, "anyOf")) :
          /\ BranchAccepts(first)
          /\ \A i \in 1..(first - 1) : ~BranchAccepts(i)
          /\ FocusResult = BranchAlone(first, FocusValue).v
          /\ BranchesTried = [i \in 1..first |-> i]

\* Of two branches that both accept the string, the first one's Date is returned.
C5_Witness ==
    /\ IsUnionCase /\ parsed.k = "return"
    /\ Len(BranchesOf(FocusNode, "anyOf")) = 2
    /\ BranchAccepts(1) /\ BranchAccepts(2)
    /\ FocusValue.k = "string" /\ FocusResult.k = "Date"
    /\ BranchAlone(2, FocusValue).v = FocusValue

RECURSIVE AllRefs(_)
\* The $ref strings of a schema document, wherever a schema node can stand
AllRefs(node) ==
    IF node.k # "object" THEN {}
    ELSE (IF Get(node, "$ref").k = "string" THEN {Get(node, "$ref").v} ELSE {})
         \cup UNION {AllRefs(Entries(Get(node, "properties"))[i][2]) :
                        i \in 1..Len(Entries(Get(node, "properties")))}
         \cup AllRefs(Get(node, "items"))
         \cup AllRefs(Get(node, "additionalProperties"))
         \cup UNION {AllRefs(BranchesOf(node, "anyOf")[i]) :
                        i \in 1..Len(BranchesOf(node, "anyOf"))}
         \cup UNION {AllRefs(BranchesOf(node, "allOf")[i]) :
                        i \in 1..Len(BranchesOf(node, "allOf"))}
         \cup UNION {AllRefs(Entries(Get(node, "$defs"))[i][2]) :
                        i \in 1..Len(Entries(Get(node, "$defs")))}

\* C6: the registry of accumulateReferences has an entry for every $ref string
\* of the schema tree, under properties, items, additionalProperties, anyOf,
\* allOf or $defs, and every entry has been given a name.
C6_EveryReferenceRegistered ==
    (pc # "init" /\ ~IsThrow(accumulateReferences(rootOf(schema))))
    => \A reference \in AllRefs(schema) :
          /\ HasReference(references, reference)
          /\ Lookup(references, reference).name.k = "string"

\* C7: the names given to the entries of the registry in one compilation are
\* pairwise distinct.
C7_NamesDistinct ==
    pc = "generated"
    => \A i, j \in 1..Len(references) :
          i # j => references[i].name # references[j].name

\* What the generated validate answers for a node of a kind, as stated
KindExactly(node, value, accepts) ==
    LET type == Get(node, "type").v
    IN  CASE type \in {"string", "number", "boolean"} -> accepts <=> typeof(value) = type
          [] type = "object" ->
                (value.k = "null" \/ value.k = "array" \/ typeof(value) # "object") => ~accepts
          [] type = "array" -> value.k # "array" => ~accepts

\* What it answers with the date formats and the patterns told apart
KindWithFormats(node, value, accepts) ==
    LET type == Get(node, "type").v
        format == Get(node, "format")
        pattern == Get(node, "pattern")
    IN  CASE type \in {"number", "boolean"} -> accepts <=> typeof(value) = type
          [] type = "string" ->
                IF format.k = "string" /\ format.v \in {"date", "date-time"}
                THEN accepts <=> (typeof(value) = "string" \/ value.k = "Date")
                ELSE IF pattern.k = "string"
                THEN accepts <=> (typeof(value) = "string" /\ RegExpTest(pattern.v, value.v))
                ELSE accepts <=> typeof(value) = "string"
          [] type = "object" ->
                (value.k = "null" \/ value.k = "array" \/ typeof(value) # "object") => ~accepts
          [] type = "array" -> value.k # "array" => ~accepts

IsKindCase ==
    /\ pc = "generated" /\ validated.k # "none"
    /\ Get(schema, "type").k = "string"

\* C10 as stated: string, number and boolean nodes accept exactly the values
\* whose typeof is that kind; object nodes reject null, arrays and non-objects;
\* array nodes reject what is no array.
C10_KindExactly ==
    IsKindCase
    => /\ KindExactly(schema, json, Accepted)
       /\ (Nested /\ InFocus) => KindExactly(FocusNode, FocusValue, Accepted)

\* C10: number and boolean nodes accept exactly the values of that typeof; a
\* string node of format date or date-time accepts exactly the strings and the
\* Date objects, any other string node exactly the strings that match its
\* pattern if it has one; object nodes reject null, arrays and every value
\* whose typeof is not object; array nodes reject every value that is no array.
C10_KindWithFormats ==
    IsKindCase
    => /\ KindWithFormats(schema, json, Accepted)
       /\ (Nested /\ InFocus) => KindWithFormats(FocusNode, FocusValue, Accepted)

\* A string node of a date format has accepted a Date object.
C10_Witness ==
    /\ IsKindCase /\ Accepted
    /\ InFocus /\ FocusValue.k = "Date"
    /\ IsStr(Get(FocusNode, "type"), "string")
    /\ Get(FocusNode, "format").k = "string"

IsStringNode(node) == node.k = "object" /\ IsStr(Get(node, "type"), "string")

HasDateFormatOf(node) ==
    Get(node, "format").k = "string" /\ Get(node, "format").v \in {"date", "date-time"}

\* C11: a string node that carries a pattern, whatever its format, accepts
\* only strings that match the pattern: a string that does not match it and a
\* value that is no string are both rejected.
C11_PatternRejects ==
    (/\ pc = "generated" /\ Accepted /\ InFocus
     /\ IsStringNode(FocusNode) /\ Get(FocusNode, "pattern").k = "string")
    => /\ FocusValue.k = "string"
       /\ RegExpTest(Get(FocusNode, "pattern").v, FocusValue.v)

\* The instants the strings of the domain denote: a date alone is midnight UTC
\* of that day, a date with a time and Z is that time
InstantOfString ==
    ("2021-12-05" :> "2021-12-05T00:00:00.000Z")
    @@ ("2021-12-05T10:30:00.000Z" :> "2021-12-05T10:30:00.000Z")

\* The date a value denotes; a string that is no date gives the invalid date
Instant(value) ==
    IF value.k = "Date" THEN value.v
    ELSE IF value.v \in DOMAIN InstantOfString THEN InstantOfString[value.v]
    ELSE "NaN"

IsDateCase ==
    /\ pc = "generated" /\ InFocus
    /\ IsStringNode(FocusNode) /\ HasDateFormatOf(FocusNode)

\* C12: a string node of format date or date-time, at the root or as an object
\* property, accepts exactly the strings and the Date objects, and parse
\* returns a Date of the instant the input denotes: for a string the date
\* constructed from it, for a Date an equal date.
C12_DateParse ==
    IsDateCase
    => /\ validated.k # "none" => (Accepted <=> FocusValue.k \in {"string", "Date"})
       /\ parsed.k # "none" => (parsed.k = "return" <=> FocusValue.k \in {"string", "Date"})
       /\ parsed.k = "return"
             => FocusResult.k = "Date" /\ FocusResult.v = Instant(FocusValue)

\* A date string under a property has been parsed into the Date of its day.
C12_Witness ==
    /\ IsDateCase /\ Nested /\ parsed.k = "return"
    /\ FocusValue = Str("2021-12-05")
    /\ FocusResult = DateOf("2021-12-05T00:00:00.000Z")

\* C13: compiling a schema in which an object node's `required` names a
\* property that is no key of the node's `properties` fails with a
\* GenerationError, and no validator is produced.
C13_RequiredUndeclaredFails ==
    (pc # "init" /\ schema.k = "object" /\ ~RequiredDeclared(schema))
    => pc = "failed" /\ genError = "GenerationError" /\ IsThrow(code)

RECURSIVE Located(_, _)
\* The document has a value at the path below the node
Located(node, path) ==
    IF Len(path) = 0 THEN TRUE
    ELSE /\ node.k = "object" /\ HasKey(node, Head(path))
         /\ Located(Get(node, Head(path)), Tail(path))

PathOf(reference) ==
    IF reference = "#" THEN <<>> ELSE Split(SubSeq(reference, 3, Len(reference)), "/")

\* Some $ref of the schema names a location that the schema does not have
HasMissingTarget(root) == \E reference \in AllRefs(root) : ~Located(root, PathOf(reference))

\* C14: when a $ref names a location that does not exist in the root schema,
\* whichever segment of its path is the missing one, compilation fails with a
\* GenerationError, and the registry holds no entry whose schema is undefined.
C14_MissingTargetFails ==
    (pc # "init" /\ HasMissingTarget(schema))
    => /\ pc = "failed" /\ genError = "GenerationError"
       /\ \A i \in 1..Len(references) : references[i].schema.k # "undefined"

\* The name the registry holds for a reference string
HelperName(reference) ==
    references[CHOOSE i \in 1..Len(references) : references[i].reference = reference].name.v

CallOf(reference, current) ==
    [k |-> "call", callee |-> "parse" \o HelperName(reference), value |-> current]

HasCase(emitted, label) == \E i \in 1..Len(emitted.cases) : emitted.cases[i].label = label

\* The case of the switch over the keys that a key selects
CaseOf(emitted, label) ==
    emitted.cases[CHOOSE i \in 1..Len(emitted.cases) : emitted.cases[i].label = label]

RECURSIVE RefsLowered(_, _, _)
\* In the code of a node every $ref below it is the call of the helper of its
\* reference string with the value current at that place, and nothing else
RefsLowered(node, emitted, current) ==
    IF HasKey(node, "$ref") THEN emitted = CallOf(Get(node, "$ref").v, current)
    ELSE IF HasKey(node, "anyOf")
    THEN /\ emitted.k = "anyOf"
         /\ \A i \in 1..Len(BranchesOf(node, "anyOf")) :
               RefsLowered(BranchesOf(node, "anyOf")[i], emitted.branches[i], current)
    ELSE IF HasKey(node, "allOf")
    THEN RefsLowered(mergeAllOf(Obj(<<>>), BranchesOf(node, "allOf")), emitted, current)
    ELSE IF IsStr(Get(node, "type"), "object")
    THEN /\ emitted.k = "object"
         /\ \A i \in 1..Len(Entries(Get(node, "properties"))) :
               /\ HasCase(emitted, Entries(Get(node, "properties"))[i][1])
               /\ RefsLowered(Entries(Get(node, "properties"))[i][2],
                              CaseOf(emitted, Entries(Get(node, "properties"))[i][1]).body,
                              emitted.element)
         /\ Get(node, "additionalProperties").k = "object"
               => RefsLowered(Get(node, "additionalProperties"), emitted.default,
                              emitted.element)
    ELSE IF IsStr(Get(node, "type"), "array")
    THEN emitted.k = "array" /\ RefsLowered(Get(node, "items"), emitted.body, emitted.element)
    ELSE TRUE

\* The root the parser is generated from: an object root with its $schema property
WithSchemaProperty(node) == IF IsObjectSchema(node) THEN Tolerant(node) ELSE node

IsDirectRef(node) == node.k = "object" /\ HasKey(node, "$ref")

\* The property p of the root is a reference and the input has the key p
IsReferenceSite ==
    /\ IsObjectSchema(schema) /\ Declares(schema, "p")
    /\ IsDirectRef(Get(Get(schema, "properties"), "p"))
    /\ json.k = "object" /\ HasKey(json, "p")

\* C16: the emitted program has one helper for each entry of the registry, in
\* the registry's order, followed by parse and validate; every $ref node is
\* lowered to the call of the helper of its reference string with the current
\* value, the target's code is not repeated at the place of the reference, and
\* what parse returns at that place is what the helper returns.
C16_HelperPerReference ==
    pc = "generated"
    => LET n == Len(references)
       IN  /\ Len(code.functions) = n + 2
           /\ code.functions[n + 1].name = "parse"
           /\ code.functions[n + 2].name = "validate"
           /\ \A i \in 1..n :
                 /\ code.functions[i].name = "parse" \o references[i].name.v
                 /\ RefsLowered(references[i].schema, code.functions[i].body, "json")
           /\ IF \E i \in 1..n : references[i].reference = "#"
              THEN code.functions[n + 1].body = CallOf("#", "json")
              ELSE RefsLowered(WithSchemaProperty(schema), code.functions[n + 1].body, "json")
           /\ (IsReferenceSite /\ parsed.k = "return")
                 => Get(parsed.v, "p")
                      = CallFunction(code,
                                     "parse" \o HelperName(Get(Get(Get(schema, "properties"),
                                                                   "p"), "$ref").v),
                                     Get(json, "p"), MaxCallDepth).v

\* Two properties that refer to two definitions have been parsed by two helpers.
C16_Witness ==
    /\ pc = "generated" /\ parsed.k = "return" /\ IsReferenceSite
    /\ Len(references) = 2
    /\ references[1].name # references[2].name
    /\ HasKey(json, "q") /\ IsDirectRef(Get(Get(schema, "properties"), "q"))
    /\ Get(Get(Get(schema, "properties"), "q"), "$ref").v = references[2].reference

RECURSIVE VisitedRefs(_)
\* The $ref strings met on the way down from a node through `properties` and
\* `items`, without entering the target of any of them
VisitedRefs(node) ==
    IF node.k # "object" THEN {}
    ELSE (IF Get(node, "$ref").k = "string" THEN {Get(node, "$ref").v} ELSE {})
         \cup (IF IsStr(Get(node, "type"), "object")
               THEN UNION {VisitedRefs(Entries(Get(node, "properties"))[i][2]) :
                              i \in 1..Len(Entries(Get(node, "properties")))}
               ELSE {})
         \cup (IF IsStr(Get(node, "type"), "array") THEN VisitedRefs(Get(node, "items")) ELSE {})

RECURSIVE Nodes(_)
RECURSIVE NodesOfAll(_)
\* The number of objects in a schema document, the root included
Nodes(value) ==
    CASE value.k = "object" -> 1 + NodesOfAll([i \in 1..Len(value.v) |-> value.v[i][2]])
      [] value.k = "array" -> NodesOfAll(value.v)
      [] OTHER -> 0

NodesOfAll(values) ==
    IF Len(values) = 0 THEN 0 ELSE Nodes(Head(values)) + NodesOfAll(Tail(values))

RECURSIVE CodeNodes(_)
RECURSIVE CodeNodesOfAll(_)
\* The number of statement templates in an emitted function body
CodeNodes(emitted) ==
    CASE emitted.k = "anyOf" -> 1 + CodeNodesOfAll(emitted.branches)
      [] emitted.k = "object" ->
            1 + CodeNodesOfAll([i \in 1..Len(emitted.cases) |-> emitted.cases[i].body])
              + (IF emitted.default.k \in {"none", "unexpected"} THEN 0
                 ELSE CodeNodes(emitted.default))
      [] emitted.k = "array" -> 1 + CodeNodes(emitted.body)
      [] OTHER -> 1

CodeNodesOfAll(parts) ==
    IF Len(parts) = 0 THEN 0 ELSE CodeNodes(Head(parts)) + CodeNodesOfAll(Tail(parts))

\* Some reference met from the root stands again inside its own target
HasCycle(root) ==
    \E reference \in VisitedRefs(root) :
        /\ Located(root, PathOf(reference))
        /\ reference \in AllRefs(evaluatePath(root, PathOf(reference)))

\* C17: for a finite schema, with references that form cycles as well, the
\* compilation step ends: the registry holds only references met without
\* entering a target, at most one entry for each, and no emitted function has
\* more statements than the schema has nodes, so no $ref was followed into its
\* target while a node was lowered.
C17_GenerationTerminates ==
    pc # "init"
    => /\ pc \in {"generated", "failed"}
       /\ \A i \in 1..Len(references) :
             references[i].reference \in VisitedRefs(WithSchemaProperty(schema))
       /\ Len(references) <= Cardinality(VisitedRefs(WithSchemaProperty(schema)))
       /\ pc = "generated"
             => \A i \in 1..Len(code.functions) :
                   CodeNodes(code.functions[i].body) <= Nodes(schema) + 1

\* A schema whose property refers back to the root has been compiled, and its
\* parse has gone three objects deep.
C17_Witness ==
    /\ pc = "generated" /\ HasCycle(schema) /\ parsed.k = "return"
    /\ json = Chain("p", "p", 3)
    /\ "#" \in VisitedRefs(schema)

RECURSIVE HasArrayWithoutItems(_)
\* Some node of the document, wherever it stands, has type array and no items
HasArrayWithoutItems(node) ==
    /\ node.k \in {"object", "array"}
    /\ \/ /\ node.k = "object"
          /\ IsStr(Get(node, "type"), "array")
          /\ ~HasKey(node, "items")
       \/ \E i \in 1..Len(node.v) :
             HasArrayWithoutItems(IF node.k = "object" THEN node.v[i][2] ELSE node.v[i])

Declared == declarations.k # "undefined"

\* C15: for a schema that holds a node of type array without `items`, at
\* whatever place, the parser generator and the declaration generator both end
\* with a GenerationError: neither emits output nor ends with another error.
C15_ArrayWithoutItemsFails ==
    HasArrayWithoutItems(schema)
    => /\ pc # "init" => (pc = "failed" /\ genError = "GenerationError")
       /\ Declared => (IsThrow(declarations) /\ declarations.v.kind = "GenerationError")

\* The compilations of the process so far: those kept, then the one under way
Compilations ==
    compiled \o << [schema |-> schema, code |-> code, declarations |-> declarations] >>

StartsWith(s, prefix) == Len(s) >= Len(prefix) /\ SubSeq(s, 1, Len(prefix)) = prefix

\* The generated names of an output are numbered from 1
NumberedFromOne(names, prefix) ==
    LET generated == SelectSeq(names, LAMBDA name : StartsWith(name, prefix))
    IN  \A i \in 1..Len(generated) : generated[i] = prefix \o ToString(i)

\* C18: in any sequence of compilations in one process, both outputs for a
\* schema are the same at every position of the sequence, the first included,
\* where the schema is compiled alone; the names generated for untitled
\* references are numbered from 1 in every output.
C18_CompilationStateless ==
    \A i \in 1..Len(Compilations) :
        LET this == Compilations[i]
        IN  /\ \A j \in 1..Len(Compilations) :
                  LET that == Compilations[j]
                  IN  this.schema = that.schema
                      => /\ (this.code # Undefined /\ that.code # Undefined)
                               => this.code = that.code
                         /\ (this.declarations # Undefined /\ that.declarations # Undefined)
                               => this.declarations = that.declarations
            /\ this.code.k = "program"
                  => NumberedFromOne([n \in 1..Len(this.code.references) |->
                                         this.code.references[n].name.v],
                                     "UntitledReference")
            /\ this.declarations.k = "declarations"
                  => NumberedFromOne([n \in 1..Len(this.declarations.references) |->
                                         this.declarations.references[n].name.v],
                                     "UntitledType")

\* The third compilation of the process is of the schema of the first, after
\* another schema with generated names, and has produced both outputs again.
C18_Witness ==
    /\ Len(compiled) = 2 /\ pc = "generated" /\ declarations.k = "declarations"
    /\ compiled[1].schema = schema /\ compiled[2].schema # schema
    /\ \E n \in 1..Len(references) : references[n].name = Str("UntitledReference1")
    /\ \E n \in 1..Len(compiled[2].code.references) :
          compiled[2].code.references[n].name = Str("UntitledReference1")
    /\ \E n \in 1..Len(declarations.references) :
          declarations.references[n].name = Str("UntitledType1")

RECURSIVE NamesUsed(_)
\* The type names that appear inside an emitted type expression
NamesUsed(body) ==
    CASE body.k = "name" -> {body.name}
      [] body.k \in {"union", "intersection"} ->
            UNION {NamesUsed(body.parts[i]) : i \in 1..Len(body.parts)}
      [] body.k = "object" ->
            UNION {NamesUsed(body.members[i].type) : i \in 1..Len(body.members)}
            \cup (IF body.index.k \in {"none", "any"} THEN {} ELSE NamesUsed(body.index))
      [] body.k = "array" -> NamesUsed(body.element)
      [] OTHER -> {}

\* The emitted definitions of a name for the node at a path
DefinitionsOf(name, path) ==
    {i \in 1..Len(declarations.types) :
        declarations.types[i].name = name /\ declarations.types[i].path = path}

\* C19: in the output of the declaration generator there is exactly one named
\* definition for every entry of the reference registry and for every entry of
\* the title registry, whatever the kind of the node, and every type name used
\* inside an emitted type expression is defined in that output.
C19_EveryNameDefined ==
    declarations.k = "declarations"
    => /\ \A n \in 1..Len(declarations.references) :
             Cardinality(DefinitionsOf(declarations.references[n].name.v,
                                       declarations.references[n].path)) = 1
       /\ \A n \in 1..Len(accumulateTitles(schema).v) :
             Cardinality(DefinitionsOf(accumulateTitles(schema).v[n].name.v,
                                       accumulateTitles(schema).v[n].path)) = 1
       /\ \A i \in 1..Len(declarations.types) :
             \A name \in NamesUsed(declarations.types[i].body) :
                \E j \in 1..Len(declarations.types) : declarations.types[j].name = name

\* C20: when the root has no title and no reference names it, the output of
\* the declaration generator holds a named definition for the root.
C20_UntitledRootDefined ==
    /\ declarations.k = "declarations"
    /\ ~Truthy(Get(schema, "title"))
    /\ ~HasReference(declarations.references, "#")
    => \E i \in 1..Len(declarations.types) : declarations.types[i].path = <<>>

\* C21: the validator generated from the metaschema accepts the metaschema
\* document itself (and parse returns it), and rejects the copy of the
\* document that has one more, undeclared top-level key.
C21_SelfHosting ==
    schema = JSONSchemaSchema
    => /\ pc # "failed"
       /\ (json = JSONSchemaSchema /\ validated # None) => Accepted
       /\ (json = JSONSchemaSchema /\ parsed # None)
             => (parsed.k = "return" /\ parsed.v = json)
       /\ (json = WithOther(JSONSchemaSchema) /\ validated # None) => Rejected

\* The generated validator has run on the metaschema document and accepted it
C21_Witness ==
    /\ schema = JSONSchemaSchema /\ json = JSONSchemaSchema
    /\ pc = "generated" /\ Accepted /\ parsed.k = "return"

\* An intersection at the root whose branches are all object nodes
IsObjectIntersection ==
    /\ Get(schema, "allOf").k = "array"
    /\ Len(Get(schema, "allOf").v) > 0
    /\ \A i \in 1..Len(Get(schema, "allOf").v) : IsObjectSchema(Get(schema, "allOf").v[i])

\* C22: the node that the parser generator merges the branches of an allOf
\* into requires every property that some branch requires and declares every
\* property that some branch declares, and so does the code emitted for it.
C22_MergeKeepsRequired ==
    (IsObjectIntersection /\ pc # "init")
    => LET branches == Get(schema, "allOf").v
           merged == mergeAllOf(Obj(<<>>), branches)
           emitted == FunctionNamed(code, "parse").body
           requiredOfAll == UNION {RequiredNames(branches[i]) : i \in 1..Len(branches)}
           declaredOfAll == UNION {{Keys(Get(branches[i], "properties"))[n] :
                                       n \in 1..Len(Keys(Get(branches[i], "properties")))} :
                                    i \in 1..Len(branches)}
       IN  /\ pc = "generated"
           /\ RequiredNames(merged) = requiredOfAll
           /\ \A name \in declaredOfAll : Declares(merged, name)
           /\ emitted.k = "object"
           /\ {emitted.cases[n].label : n \in {m \in 1..Len(emitted.cases) :
                                                   emitted.cases[m].count}} = requiredOfAll
           /\ declaredOfAll \subseteq {emitted.cases[n].label : n \in 1..Len(emitted.cases)}

RECURSIVE CarriesSchemaKey(_)
\* The value is an object with a $schema key, or holds one
CarriesSchemaKey(value) ==
    \/ HasKey(value, "$schema")
    \/ /\ value.k \in {"object", "array"}
       /\ \E i \in 1..Len(value.v) :
             CarriesSchemaKey(IF value.k = "object" THEN value.v[i][2] ELSE value.v[i])

\* Some object below the top of the input has a $schema key
HasInnerSchemaKey(value) ==
    /\ value.k = "object"
    /\ \E i \in 1..Len(value.v) : CarriesSchemaKey(value.v[i][2])

\* C23: when neither the root nor a node below it declares $schema and every
\* object node has additionalProperties: false, an input with a $schema key on
\* an object below its top is rejected, also when that object is checked
\* through a reference to the root.
C23_SchemaKeyAtTopOnly ==
    (/\ pc = "generated" /\ validated # None
     /\ IsObjectSchema(schema) /\ ~Declares(schema, "$schema")
     /\ IsBool(Get(schema, "additionalProperties"), FALSE)
     /\ HasInnerSchemaKey(json))
    => Rejected

\* C24: when both generators have run on one schema, every registry entry has
\* the same name in the parser (helper parse<Name>) as in the declarations
\* (type <Name>).
C24_SameNames ==
    (pc = "generated" /\ declarations.k = "declarations")
    => \A n \in 1..Len(references) :
          \A m \in 1..Len(declarations.references) :
             references[n].reference = declarations.references[m].reference
             => /\ references[n].name = declarations.references[m].name
                /\ HasFunction(code, "parse" \o declarations.references[m].name.v)

\* The entries before the n-th that are named by the fallback rule
FallbackBefore(n) ==
    {m \in 1..(n - 1) : ~Truthy(Get(references[m].schema, "title"))
                        /\ Len(references[m].path) = 0}

\* C25: in the parser's registry an entry whose target has a title is named by
\* the pascal-cased title; otherwise, with a non-empty path, by the pascal-cased
\* last segment of the path; otherwise UntitledReference<n>, n counting the
\* entries named by this last rule from 1.  Every helper carries that name.
C25_NamingRule ==
    pc = "generated"
    => \A n \in 1..Len(references) :
          LET entry == references[n]
              title == Get(entry.schema, "title")
          IN  /\ entry.name.v =
                    (IF Truthy(title) THEN pascalCase(title.v)
                     ELSE IF Len(entry.path) > 0 THEN pascalCase(entry.path[Len(entry.path)])
                     ELSE "UntitledReference" \o ToString(Cardinality(FallbackBefore(n)) + 1))
              /\ code.functions[n].name = "parse" \o entry.name.v

\* The registry holds an entry named by the title T of a definition, or by the
\* last segment of a path, and the entry of the untitled root after it.
C25_Witness ==
    /\ pc = "generated"
    /\ Len(references) = 2
    /\ \/ /\ references[1].reference = "#/$defs/a"
          /\ Get(references[1].schema, "title") = Str("T")
          /\ references[1].name = Str("T")
       \/ /\ references[1].reference = "#/$defs/b/properties/item"
          /\ references[1].name = Str("Item")
    /\ references[2].reference = "#"
    /\ references[2].name = Str("UntitledReference1")

RECURSIVE NodeAt(_, _)
\* The value found by following the segments from a node
NodeAt(node, path) ==
    IF Len(path) = 0 THEN node ELSE NodeAt(Get(node, Head(path)), Tail(path))

\* Every entry has the segments of its reference string as its path, and the
\* node that they lead to from the root as its schema
RegistryExact ==
    \A n \in 1..Len(references) :
       /\ references[n].path = PathOf(references[n].reference)
       /\ references[n].schema = NodeAt(rootOf(schema), PathOf(references[n].reference))

RECURSIVE CloseOf(_, _, _)
\* The index of the brace that closes the one before position i
CloseOf(tokens, i, depth) ==
    IF tokens[i] = "}" THEN (IF depth = 0 THEN i ELSE CloseOf(tokens, i + 1, depth - 1))
    ELSE IF tokens[i] = "{" THEN CloseOf(tokens, i + 1, depth + 1)
    ELSE CloseOf(tokens, i + 1, depth)

ReadPrimary(tokens, i) ==
    IF tokens[i] = "{"
    THEN [type |-> [k |-> "object", tokens |-> SubSeq(tokens, i + 1, CloseOf(tokens, i + 1, 0) - 1)],
          next |-> CloseOf(tokens, i + 1, 0) + 1]
    ELSE [type |-> [k |-> "atom", token |-> tokens[i]], next |-> i + 1]

RECURSIVE ReadSuffixes(_, _)
ReadSuffixes(tokens, read) ==
    IF read.next <= Len(tokens) /\ tokens[read.next] = "[]"
    THEN ReadSuffixes(tokens, [type |-> [k |-> "array", element |-> read.type],
                               next |-> read.next + 1])
    ELSE read

ReadPostfix(tokens, i) == ReadSuffixes(tokens, ReadPrimary(tokens, i))

RECURSIVE ReadOperands(_, _, _, _)
\* The operands of one operator from position i on, and the position after them
ReadOperands(tokens, i, op, parts) ==
    LET read == IF op = "&" THEN ReadPostfix(tokens, i)
                ELSE LET operands == ReadOperands(tokens, i, "&", <<>>)
                     IN  [type |-> IF Len(operands.parts) = 1 THEN operands.parts[1]
                                   ELSE [k |-> "intersection", parts |-> operands.parts],
                          next |-> operands.next]
    IN  IF read.next <= Len(tokens) /\ tokens[read.next] = op
        THEN ReadOperands(tokens, read.next + 1, op, Append(parts, read.type))
        ELSE [parts |-> Append(parts, read.type), next |-> read.next]

\* The type that a list of tokens denotes
ReadType(tokens) ==
    LET operands == ReadOperands(tokens, 1, "|", <<>>)
    IN  IF Len(operands.parts) = 1 THEN operands.parts[1]
        ELSE [k |-> "union", parts |-> operands.parts]

RECURSIVE ArraysIn(_)
\* The array types that occur in a tree
ArraysIn(body) ==
    CASE body.k = "array" -> {body} \cup ArraysIn(body.element)
      [] body.k \in {"union", "intersection"} ->
            UNION {ArraysIn(body.parts[i]) : i \in 1..Len(body.parts)}
      [] body.k = "object" ->
            UNION {ArraysIn(body.members[i].type) : i \in 1..Len(body.members)}
            \cup (IF body.index.k \in {"none", "any"} THEN {} ELSE ArraysIn(body.index))
      [] OTHER -> {}

\* C27: the text emitted for an array node denotes the sequences of the type
\* that the text emitted for its items denotes, whether the items are one type
\* or several alternatives (anyOf, allOf, a pattern of string literals).
C27_ArrayOfWholeElement ==
    declarations.k = "declarations"
    => \A i \in 1..Len(declarations.types) :
          \A array \in ArraysIn(declarations.types[i].body) :
             ReadType(RenderType(array))
                = [k |-> "array", element |-> ReadType(RenderType(array.element))]

\* A line without the spaces and tabs it starts with
RECURSIVE WithoutLeadingBlanks(_)
WithoutLeadingBlanks(line) ==
    IF Len(line) > 0 /\ SubSeq(line, 1, 1) \in {" ", "\t"}
    THEN WithoutLeadingBlanks(SubSeq(line, 2, Len(line)))
    ELSE line

\* The lines of the text: what stands between the line ends \n and \r\n
InputLines == splitLines(text)

RECURSIVE DepthOf(_)
\* The depth that line n is emitted at
DepthOf(n) ==
    LET line == WithoutLeadingBlanks(InputLines[n])
        before == IF n = 1 THEN 0
                  ELSE DepthOf(n - 1)
                       + (IF EndsWithBrace(WithoutLeadingBlanks(InputLines[n - 1]))
                          THEN 1 ELSE 0)
    IN  IF StartsWithBrace(line) /\ before > 0 THEN before - 1 ELSE before

\* C28: the output of format has the lines of the input in their order, each
\* without its leading blanks and behind depth*tabSize spaces, then \n; the
\* depth starts at 0, is lowered by one (not below 0) before a line that starts
\* with } is emitted, and is raised by one after a line that ends with {.
C28_FormatIndents ==
    formatted # Undefined
    => LET out == Split(formatted.v, "\n")
       IN  /\ Len(out) = Len(InputLines) + 1
           /\ out[Len(out)] = ""
           /\ \A n \in 1..Len(InputLines) :
                 /\ DepthOf(n) >= 0
                 /\ out[n] = repeat(" ", DepthOf(n) * formatted.tabSize)
                                \o WithoutLeadingBlanks(InputLines[n])

\* A text of three lines that opens a block, closes it and closes once more:
\* the depths are 0, 0 and 0, the second line having lowered it from 1.
C28_Witness ==
    /\ text = "  a {\n\t}\n}"
    /\ formatted # Undefined /\ formatted.tabSize = 4
    /\ formatted.v = "a {\n}\n}\n"

\* C29: the kept validator of schema documents accepts a document exactly
\* when the validator generated from the metaschema accepts it; so a node of
\* one declared key with a value of the declared kind is accepted by both,
\* and a node with a key that is not declared is rejected by both.
C29_SameAcceptance ==
    (schema = JSONSchemaSchema /\ validated # None /\ checked # None)
    => (Accepted <=> checked.k = "return")

\* The engine gave up a run of the emitted program for want of stack
Overflowed(result) == result.k = "throw" /\ result.v.k = "RangeError"

\* C30: for a schema that compiles, validate and parse of the emitted program
\* end on every value by returning or by raising a validation failure; no run
\* ends because the helpers call each other without end, also when the target
\* of a reference is itself a reference.
C30_RunsTerminate ==
    pc = "generated" => (~Overflowed(validated) /\ ~Overflowed(parsed))
====
